---------------------------- MODULE Spec2Model ----------------------------
(***************************************************************************)
(* Turn-taking protocol engine of the Support Intelligence Assistant:      *)
(* the Retry Ledger and the backend operations, the function-call codec    *)
(* (execute_function_call), the Turn Router (speaker_selection_func, in    *)
(* its CLI and its browser variant) and the conversation loop.             *)
(*                                                                         *)
(* A Python str is a sequence of one-character strings, so that rstrip,    *)
(* endswith, "in" and the regular expression are computed on characters.   *)
(* A Python value is a record [kind, text, items]: its Python type, the    *)
(* characters of a str or of a number token, the pairs of a dict.          *)
(***************************************************************************)
EXTENDS Integers, Sequences, FiniteSets, TLC

---------------------------------------------------------------------------
(* Characters *)

Upper ==
    {"A","B","C","D","E","F","G","H","I","J","K","L","M",
     "N","O","P","Q","R","S","T","U","V","W","X","Y","Z"}

Lower ==
    {"a","b","c","d","e","f","g","h","i","j","k","l","m",
     "n","o","p","q","r","s","t","u","v","w","x","y","z"}

Digit ==
    {"0","1","2","3","4","5","6","7","8","9"}

\* \w of the regular expressions
WordChars ==
    Upper \cup Lower \cup Digit \cup {"_"}

\* \s of the regular expressions, and the characters str.rstrip() removes
Whitespace ==
    {" ", "\t", "\n", "\r", "\f"}

---------------------------------------------------------------------------
(* Python str operations *)

\* the least and the greatest element of a set of positions that is not empty
Min(S) == CHOOSE j \in S : \A k \in S : j <= k

Max(S) == CHOOSE j \in S : \A k \in S : k <= j

\* the least element of S, none when S is empty
First(S, none) == IF S = {} THEN none ELSE Min(S)

\* the greatest element of S, none when S is empty
Last(S, none) == IF S = {} THEN none ELSE Max(S)

\* s without its trailing whitespace
rstrip(s) ==
    SubSeq(s, 1, Last({i \in 1..Len(s) : s[i] \notin Whitespace}, 0))

\* endswith that finds the suffix anywhere in s
endswith_anywhere(s, suffix) ==
    \E i \in 1..(Len(s) - Len(suffix) + 1) :
        SubSeq(s, i, i + Len(suffix) - 1) = suffix

endswith(s, suffix) ==
    /\ Len(s) >= Len(suffix)
    /\ SubSeq(s, Len(s) - Len(suffix) + 1, Len(s)) = suffix

\* startswith that looks for the prefix at the end of s
startswith_at_end(s, prefix) ==
    /\ Len(s) >= Len(prefix)
    /\ SubSeq(s, Len(s) - Len(prefix) + 1, Len(s)) = prefix

startswith(s, prefix) ==
    /\ Len(s) >= Len(prefix)
    /\ SubSeq(s, 1, Len(prefix)) = prefix

\* sub in s
contains(sub, s) ==
    \E i \in 1..(Len(s) - Len(sub) + 1) : SubSeq(s, i, i + Len(sub) - 1) = sub

\* the first position at or after i whose character is not in class
\* (Len(s) + 1 when there is none): what a greedy X* consumes from i
SkipWhile(s, i, class) ==
    IF i > Len(s) THEN i
    ELSE First({j \in i..Len(s) : s[j] \notin class}, Len(s) + 1)

---------------------------------------------------------------------------
(* Python values *)

\* kind: the Python type.  text: the characters of a str, the JSON token of
\* an int or a float, "true"/"false" of a bool.  items: the (key, value)
\* pairs of a dict, in insertion order.
PyVal(kind, text, items) == [kind |-> kind, text |-> text, items |-> items]

Str(t) == PyVal("str", t, <<>>)

IntVal(t) == PyVal("int", t, <<>>)

Bool(b) ==
    PyVal("bool", IF b THEN <<"t","r","u","e">> ELSE <<"f","a","l","s","e">>, <<>>)

None == PyVal("none", <<>>, <<>>)

Dict(items) == PyVal("dict", <<>>, items)

\* a key that the dict does not hold
Missing == PyVal("missing", <<>>, <<>>)

\* d.get(key, default) on the slot of the key
dict_get(slot, default) ==
    IF slot.kind = "missing" THEN default ELSE slot

\* the mantissa of a float token has a digit other than 0
NonZeroMantissa(t) ==
    \E i \in 1..Len(t) :
        /\ t[i] \in Digit \ {"0"}
        /\ \A j \in 1..(i - 1) : t[j] \notin {"e", "E"}

\* bool(v)
truthy(v) ==
    CASE v.kind = "str" -> v.text # <<>>
      [] v.kind = "int" -> v.text # <<"0">>
      [] v.kind = "float" -> NonZeroMantissa(v.text) \/ v.text[Len(v.text)] \in {"N", "y"}
      [] v.kind = "bool" -> v.text = <<"t","r","u","e">>
      [] v.kind = "dict" -> v.items # <<>>
      [] OTHER -> FALSE

\* type(v).__name__
type_name(v) ==
    CASE v.kind = "str" -> <<"s","t","r">>
      [] v.kind = "int" -> <<"i","n","t">>
      [] v.kind = "float" -> <<"f","l","o","a","t">>
      [] v.kind = "bool" -> <<"b","o","o","l">>
      [] v.kind = "dict" -> <<"d","i","c","t">>
      [] OTHER -> <<"N","o","n","e","T","y","p","e">>

\* the slot of key in a sequence of (key, value) pairs
RECURSIVE Slot(_, _)
Slot(items, key) ==
    IF items = <<>> THEN Missing
    ELSE IF items[Len(items)].k = key THEN items[Len(items)].v
    ELSE Slot(SubSeq(items, 1, Len(items) - 1), key)

\* d[key] = value on a sequence of pairs: a key already held keeps its place
SetItem(items, key, value) ==
    IF \E i \in 1..Len(items) : items[i].k = key
    THEN [i \in 1..Len(items) |->
            IF items[i].k = key THEN [k |-> key, v |-> value] ELSE items[i]]
    ELSE Append(items, [k |-> key, v |-> value])

DigitSeq == <<"0","1","2","3","4","5","6","7","8","9">>

\* str(n) for n >= 0
RECURSIVE int_str(_)
int_str(n) ==
    IF n < 10 THEN <<DigitSeq[n + 1]>>
    ELSE int_str(n \div 10) \o <<DigitSeq[(n % 10) + 1]>>

---------------------------------------------------------------------------
(* Literals of the protocol *)

TERMINATE ==
    <<"T","E","R","M","I","N","A","T","E">>

FUNCTION_CALL ==
    <<"F","U","N","C","T","I","O","N","_","C","A","L","L",":">>

SIA == <<"S","I","A">>

FunctionExecutor ==
    <<"F","u","n","c","t","i","o","n","E","x","e","c","u","t","o","r">>

User == <<"U","s","e","r">>

Coordinator ==
    <<"C","o","o","r","d","i","n","a","t","o","r">>

---------------------------------------------------------------------------
(* json.loads, on the JSON grammar without arrays: the texts of the model  *)
(* are over an alphabet that has no "[".  A character that is not ASCII is *)
(* one element of the sequence, named by its code point ("u274c").         *)

JsonWhitespace ==
    {" ", "\t", "\n", "\r"}

\* the characters below U+0020, which a JSON string may not hold unescaped
ControlChars ==
    {"\t", "\n", "\r", "\f", "u0008"}

NonAscii ==
    {"u274c", "u203c", "ufe0f"}

\* the four hexadecimal digits of a character outside ASCII or of backspace
HexOf(c) ==
    CASE c = "u274c" -> <<"2","7","4","c">>
      [] c = "u203c" -> <<"2","0","3","c">>
      [] c = "ufe0f" -> <<"f","e","0","f">>
      [] c = "u0008" -> <<"0","0","0","8">>

LowerHex(c) ==
    CASE c = "A" -> "a" [] c = "B" -> "b" [] c = "C" -> "c"
      [] c = "D" -> "d" [] c = "E" -> "e" [] c = "F" -> "f"
      [] OTHER -> c

\* the character at position i, "" past either end
At(s, i) ==
    IF i >= 1 /\ i <= Len(s) THEN s[i] ELSE ""

StartsAt(s, i, word) ==
    /\ i >= 1
    /\ i + Len(word) - 1 <= Len(s)
    /\ SubSeq(s, i, i + Len(word) - 1) = word

Fail == [ok |-> FALSE, pos |-> 0, val |-> None]

Ok(pos, val) == [ok |-> TRUE, pos |-> pos, val |-> val]

\* the character a one-letter escape stands for, "" when it is no escape
Unescape(c) ==
    CASE c = "\"" -> "\"" [] c = "\\" -> "\\" [] c = "/" -> "/"
      [] c = "b" -> "u0008" [] c = "f" -> "\f" [] c = "n" -> "\n"
      [] c = "r" -> "\r" [] c = "t" -> "\t"
      [] OTHER -> ""

\* the four characters after position p as lower-case hexadecimal digits
HexAt(s, p) == [i \in 1..4 |-> LowerHex(At(s, p + i))]

\* the one element of a set of characters, "" when it is empty
Only(S) == IF S = {} THEN "" ELSE CHOOSE c \in S : TRUE

\* \uXXXX at position p (the position of the u): the character, "" if none
UnicodeEscape(s, p) ==
    Only({c \in NonAscii \cup {"u0008"} : HexOf(c) = HexAt(s, p)})

RECURSIVE scan_string(_, _, _)

\* the escape at j stands for c and is width characters long
string_escape(s, j, read, c, width) ==
    IF c = "" THEN Fail ELSE scan_string(s, j + width, Append(read, c))

\* j is the next quote, backslash or control character (0: there is none)
\* and read is what the string holds before it
string_at(s, j, read) ==
    IF j = 0 THEN Fail
    ELSE IF s[j] = "\"" THEN Ok(j + 1, Str(read))
    ELSE IF s[j] = "\\"
    THEN IF At(s, j + 1) = "u"
         THEN string_escape(s, j, read, UnicodeEscape(s, j + 1), 6)
         ELSE string_escape(s, j, read, Unescape(At(s, j + 1)), 2)
    ELSE Fail

string_stop(s, p) ==
    First({j \in p..Len(s) : s[j] \in {"\"", "\\"} \cup ControlChars}, 0)

\* the string whose opening quote is before p, acc being what was read of
\* it: the characters up to the next quote, backslash or control character
\* are taken as they are
scan_string(s, p, acc) ==
    string_at(s, string_stop(s, p),
              acc \o SubSeq(s, p, string_stop(s, p) - 1))

\* -? from i
SignEnd(s, i) == IF At(s, i) = "-" THEN i + 1 ELSE i

\* (?:0|[1-9]\d*) from p0
IntEnd(s, p0) ==
    IF At(s, p0) = "0" THEN p0 + 1
    ELSE IF At(s, p0) \in Digit THEN SkipWhile(s, p0, Digit)
    ELSE p0

\* (\.\d+)? from p1
FracEnd(s, p1) ==
    IF At(s, p1) = "." /\ At(s, p1 + 1) \in Digit
    THEN SkipWhile(s, p1 + 1, Digit)
    ELSE p1

\* [eE][-+]? from p2
ExpStart(s, p2) ==
    IF At(s, p2) \in {"e", "E"}
    THEN (IF At(s, p2 + 1) \in {"+", "-"} THEN p2 + 2 ELSE p2 + 1)
    ELSE p2

\* ([eE][-+]?\d+)? from p2, q being where its digits would start
ExpEnd(s, p2, q) ==
    IF q > p2 /\ At(s, q) \in Digit THEN SkipWhile(s, q, Digit) ELSE p2

\* the number read from i to p3, p1 being the end of its integer part
number_token(i, p1, p3, tok) ==
    IF p3 = p1
    THEN Ok(p3, IntVal(IF tok = <<"-","0">> THEN <<"0">> ELSE tok))
    ELSE Ok(p3, PyVal("float", tok, <<>>))

number_end(s, i, p1, p3) == number_token(i, p1, p3, SubSeq(s, i, p3 - 1))

number_frac(s, i, p1, p2) ==
    number_end(s, i, p1, ExpEnd(s, p2, ExpStart(s, p2)))

number_int(s, i, p0, p1) ==
    IF p1 = p0 THEN Fail ELSE number_frac(s, i, p1, FracEnd(s, p1))

\* (-?(?:0|[1-9]\d*))(\.\d+)?([eE][-+]?\d+)? matched at i
parse_number(s, i) ==
    number_int(s, i, SignEnd(s, i), IntEnd(s, SignEnd(s, i)))

NaN == <<"N","a","N">>

Infinity == <<"I","n","f","i","n","i","t","y">>

RECURSIVE parse_value(_, _)
RECURSIVE parse_pairs(_, _, _)

\* after a value, at d: the closing brace or a comma and the next pair
pairs_next(s, d, held) ==
    IF At(s, d) = "}" THEN Ok(d + 1, Dict(held))
    ELSE IF At(s, d) = ","
    THEN parse_pairs(s, SkipWhile(s, d + 1, JsonWhitespace), held)
    ELSE Fail

pairs_value(s, items, key, v) ==
    IF ~v.ok THEN Fail
    ELSE pairs_next(s, SkipWhile(s, v.pos, JsonWhitespace),
                    SetItem(items, key.val.text, v.val))

pairs_colon(s, items, key, c) ==
    IF At(s, c) # ":" THEN Fail
    ELSE pairs_value(s, items, key,
                     parse_value(s, SkipWhile(s, c + 1, JsonWhitespace)))

pairs_key(s, items, key) ==
    IF ~key.ok THEN Fail
    ELSE pairs_colon(s, items, key, SkipWhile(s, key.pos, JsonWhitespace))

\* the pairs of an object from the opening quote of a key at p
parse_pairs(s, p, items) ==
    IF At(s, p) # "\"" THEN Fail
    ELSE pairs_key(s, items, scan_string(s, p + 1, <<>>))

object_from(s, p) ==
    IF At(s, p) = "}" THEN Ok(p + 1, Dict(<<>>))
    ELSE parse_pairs(s, p, <<>>)

\* the object whose opening brace is at i
parse_object(s, i) ==
    object_from(s, SkipWhile(s, i + 1, JsonWhitespace))

\* a value that is no string, object or literal: n is the number read at i
value_number(s, i, n) ==
    IF n.ok THEN n
    ELSE IF StartsAt(s, i, NaN) THEN Ok(i + 3, PyVal("float", NaN, <<>>))
    ELSE IF StartsAt(s, i, Infinity)
    THEN Ok(i + 8, PyVal("float", Infinity, <<>>))
    ELSE IF StartsAt(s, i, <<"-">> \o Infinity)
    THEN Ok(i + 9, PyVal("float", <<"-">> \o Infinity, <<>>))
    ELSE Fail

parse_value(s, i) ==
    IF At(s, i) = "\"" THEN scan_string(s, i + 1, <<>>)
    ELSE IF At(s, i) = "{" THEN parse_object(s, i)
    ELSE IF StartsAt(s, i, <<"n","u","l","l">>) THEN Ok(i + 4, None)
    ELSE IF StartsAt(s, i, <<"t","r","u","e">>) THEN Ok(i + 4, Bool(TRUE))
    ELSE IF StartsAt(s, i, <<"f","a","l","s","e">>) THEN Ok(i + 5, Bool(FALSE))
    ELSE value_number(s, i, parse_number(s, i))

\* v is the value read from the start; only whitespace may follow it
loads_end(s, v) ==
    IF v.ok /\ SkipWhile(s, v.pos, JsonWhitespace) = Len(s) + 1 THEN v
    ELSE Fail

\* json.loads(s): ok is FALSE where it raises JSONDecodeError
json_loads(s) ==
    loads_end(s, parse_value(s, SkipWhile(s, 1, JsonWhitespace)))

---------------------------------------------------------------------------
(* str(), repr() and json.dumps *)

\* int(t) for a token of digits
RECURSIVE str_int(_)
str_int(t) ==
    IF t = <<>> THEN 0
    ELSE 10 * str_int(SubSeq(t, 1, Len(t) - 1))
         + (CHOOSE d \in 0..9 : DigitSeq[d + 1] = t[Len(t)])

RECURSIVE Pow10(_)
Pow10(n) == IF n = 0 THEN 1 ELSE 10 * Pow10(n - 1)

\* repr of the float of a token <digits>[eE]<digits> (the alphabet has no
\* sign and no "."), exact below 10^16 where repr uses no exponent
float_repr(tok) ==
    int_str(str_int(SubSeq(tok, 1, SkipWhile(tok, 1, Digit) - 1))
            * Pow10(str_int(SubSeq(tok, SkipWhile(tok, 1, Digit) + 1,
                                   Len(tok)))))
    \o <<".","0">>

\* one character inside repr(str) quoted with q
repr_char(c, q) ==
    CASE c = "\\" -> <<"\\","\\">>
      [] c = q -> <<"\\", q>>
      [] c = "\n" -> <<"\\","n">>
      [] c = "\r" -> <<"\\","r">>
      [] c = "\t" -> <<"\\","t">>
      [] c = "\f" -> <<"\\","x","0","c">>
      [] c = "u0008" -> <<"\\","x","0","8">>
      [] OTHER -> <<c>>

\* the concatenation of the sequences of parts, by halves
RECURSIVE Flatten(_)
Flatten(parts) ==
    IF parts = <<>> THEN <<>>
    ELSE IF Len(parts) = 1 THEN parts[1]
    ELSE Flatten(SubSeq(parts, 1, Len(parts) \div 2))
         \o Flatten(SubSeq(parts, Len(parts) \div 2 + 1, Len(parts)))

\* sep.join(parts)
Join(sep, parts) ==
    Flatten([i \in 1..Len(parts) |->
                IF i = 1 THEN parts[i] ELSE sep \o parts[i]])

\* the quote of repr(str): " when t holds ' and no ", else '
repr_quote(t) ==
    IF (\E i \in 1..Len(t) : t[i] = "'") /\ ~(\E i \in 1..Len(t) : t[i] = "\"")
    THEN "\"" ELSE "'"

repr_quoted(t, q) ==
    <<q>> \o Flatten([i \in 1..Len(t) |-> repr_char(t[i], q)]) \o <<q>>

repr_str(t) == repr_quoted(t, repr_quote(t))

RECURSIVE py_repr(_)
py_repr(v) ==
    CASE v.kind = "str" -> repr_str(v.text)
      [] v.kind = "int" -> v.text
      [] v.kind = "float" ->
            IF v.text = NaN THEN <<"n","a","n">>
            ELSE IF v.text = Infinity THEN <<"i","n","f">>
            ELSE IF v.text = <<"-">> \o Infinity THEN <<"-","i","n","f">>
            ELSE float_repr(v.text)
      [] v.kind = "bool" ->
            IF truthy(v) THEN <<"T","r","u","e">> ELSE <<"F","a","l","s","e">>
      [] v.kind = "dict" ->
            <<"{">>
            \o Join(<<",", " ">>,
                    [i \in 1..Len(v.items) |->
                        repr_str(v.items[i].k) \o <<":", " ">>
                        \o py_repr(v.items[i].v)])
            \o <<"}">>
      [] OTHER -> <<"N","o","n","e">>

\* str(v), what an f-string writes for {v}
py_str(v) ==
    IF v.kind = "str" THEN v.text ELSE py_repr(v)

\* one character inside a JSON string
dumps_char(c, ensure_ascii) ==
    CASE c = "\"" -> <<"\\","\"">>
      [] c = "\\" -> <<"\\","\\">>
      [] c = "\n" -> <<"\\","n">>
      [] c = "\r" -> <<"\\","r">>
      [] c = "\t" -> <<"\\","t">>
      [] c = "\f" -> <<"\\","f">>
      [] c = "u0008" -> <<"\\","b">>
      [] c \in NonAscii ->
            IF ensure_ascii THEN <<"\\","u">> \o HexOf(c) ELSE <<c>>
      [] OTHER -> <<c>>

\* a JSON string with the characters of t as they are
dumps_str_unescaped(t, ensure_ascii) ==
    <<"\"">> \o t \o <<"\"">>

dumps_str(t, ensure_ascii) ==
    <<"\"">>
    \o Flatten([i \in 1..Len(t) |-> dumps_char(t[i], ensure_ascii)])
    \o <<"\"">>

\* json.dumps(v, ensure_ascii=...), with the default separators
RECURSIVE json_dumps(_, _)
json_dumps(v, ensure_ascii) ==
    CASE v.kind = "str" -> dumps_str(v.text, ensure_ascii)
      [] v.kind = "int" -> v.text
      [] v.kind = "float" ->
            IF v.text[Len(v.text)] \in {"N", "y"} THEN v.text
            ELSE float_repr(v.text)
      [] v.kind = "bool" -> v.text
      [] v.kind = "dict" ->
            <<"{">>
            \o Join(<<",", " ">>,
                    [i \in 1..Len(v.items) |->
                        dumps_str(v.items[i].k, ensure_ascii) \o <<":", " ">>
                        \o json_dumps(v.items[i].v, ensure_ascii)])
            \o <<"}">>
      [] OTHER -> <<"n","u","l","l">>

---------------------------------------------------------------------------
(* Retry Ledger: a dict from key to count; a key it does not hold is       *)
(* outside the domain of the function.                                     *)

MAX_RETRIES == 3

get_retry_count(counts, key) ==
    IF key \in DOMAIN counts THEN counts[key] ELSE 0

\* increment_retry that counts an attempt twice
increment_retry_by_two(counts, key) ==
    [k \in DOMAIN counts \cup {key} |->
        IF k = key THEN get_retry_count(counts, key) + 2 ELSE counts[k]]

\* increment_retry that counts the attempt on every entry of the ledger
increment_retry_counts_all(counts, key) ==
    [k \in DOMAIN counts \cup {key} |-> get_retry_count(counts, k) + 1]

\* increment_retry that starts the count of the key again at every attempt
increment_retry_restarts(counts, key) ==
    [k \in DOMAIN counts \cup {key} |-> IF k = key THEN 1 ELSE counts[k]]

\* the ledger after increment_retry(key); the call returns its count of key
increment_retry(counts, key) ==
    [k \in DOMAIN counts \cup {key} |->
        IF k = key THEN get_retry_count(counts, key) + 1 ELSE counts[k]]

\* reset_retries that sets the count of the key to 0 and keeps the entry
reset_retries_to_zero(counts, key) ==
    [k \in DOMAIN counts |-> IF k = key THEN 0 ELSE counts[k]]

\* reset_retries that leaves the entry in the ledger
reset_retries_keeps_entry(counts, key) ==
    counts

\* the ledger after reset_retries(key)
reset_retries(counts, key) ==
    [k \in DOMAIN counts \ {key} |-> counts[k]]

---------------------------------------------------------------------------
(* Backend operations.  Each takes the ledger and its arguments and gives *)
(* the exception it raises (exc, <<>> when it returns), the dict it       *)
(* returns and the ledger it leaves.                                      *)

Item(key, value) == [k |-> key, v |-> value]

Return(result, counts) ==
    [exc |-> <<>>, result |-> result, counts |-> counts, called |-> TRUE]

\* an operation that raises after it has emptied the ledger
Raise_with_empty_ledger(message, counts) ==
    [exc |-> message, result |-> None, counts |-> <<>>, called |-> TRUE]

Raise(message, counts) ==
    [exc |-> message, result |-> None, counts |-> counts, called |-> TRUE]

\* str(e) of the AttributeError of v.attr on a v that has no such attribute
AttributeError(v, attr) ==
    <<"'">> \o type_name(v) \o <<"'"," ","o","b","j","e","c","t"," ","h",
        "a","s"," ","n","o"," ","a","t","t","r","i","b","u","t","e"," ","'">> \o attr \o <<
        "'">>

\* f"Automatically retrying API call (attempt {current_retry}/{MAX_RETRIES})"
RetryingMessage(current_retry) ==
    <<"A","u","t","o","m","a","t","i","c","a","l","l","y"," ","r","e","t",
        "r","y","i","n","g"," ","A","P","I"," ","c","a","l","l"," ","(","a",
        "t","t","e","m","p","t"," ">>
    \o int_str(current_retry) \o <<"/">> \o int_str(MAX_RETRIES) \o <<")">>
\* get_user_status that reports the ceiling with the status error
get_user_status_gives_up_with_error(counts, user_id) ==
    IF user_id.kind # "str"
    THEN Raise(AttributeError(user_id, <<"s","t","a","r","t","s","w","i",
        "t","h">>), counts)
    ELSE IF startswith(user_id.text, <<"5">>)
    THEN LET retry_key == <<"u","s","e","r","_">> \o user_id.text
             incremented == increment_retry(counts, retry_key)
             current_retry == incremented[retry_key]
         IN  IF current_retry < MAX_RETRIES
             THEN Return(Dict(<<
                    Item(<<"s","t","a","t","u","s">>, Str(<<"r","e","t","r",
                        "y","i","n","g">>)),
                    Item(<<"m","e","s","s","a","g","e">>, Str(RetryingMessage(current_retry))),
                    Item(<<"r","e","t","r","y","_","n","e","e","d","e","d">>, Bool(TRUE)),
                    Item(<<"a","u","t","o","_","r","e","t","r","y">>, Bool(TRUE)),
                    Item(<<"u","s","e","r","_","i","d">>, user_id)>>), incremented)
             ELSE Return(Dict(<<
                    Item(<<"s","t","a","t","u","s">>, Str(<<"e","r","r","o","r">>)),
                    Item(<<"r","e","a","s","o","n","_","c","o","d","e">>, Str(<<
                        "M","A","X","_","R","E","T","R","I","E","S","_","E",
                        "X","C","E","E","D","E","D">>)),
                    Item(<<"m","e","s","s","a","g","e">>, Str(
                        <<"A","c","c","o","u","n","t"," ","v","e","r","i",
                            "f","i","c","a","t","i","o","n"," ","f","a","i",
                            "l","e","d"," ","a","f","t","e","r"," ","m","u",
                            "l","t","i","p","l","e"," ","a","t","t","e","m",
                            "p","t","s">>)),
                    Item(<<"u","s","e","r","_","i","d">>, user_id)>>),
                    reset_retries(incremented, retry_key))
    ELSE IF startswith(user_id.text, <<"1">>)
    THEN Return(Dict(<<
            Item(<<"s","t","a","t","u","s">>, Str(<<"a","c","t","i","v","e">>)),
            Item(<<"m","e","s","s","a","g","e">>, Str(<<"Y","o","u","r"," ",
                "a","c","c","o","u","n","t"," ","i","s"," ","a","c","t","i",
                "v","e",".">>)),
            Item(<<"u","s","e","r","_","i","d">>, user_id)>>), counts)
    ELSE IF startswith(user_id.text, <<"2">>)
    THEN Return(Dict(<<
            Item(<<"s","t","a","t","u","s">>, Str(<<"o","n","b","o","a","r",
                "d","i","n","g">>)),
            Item(<<"m","e","s","s","a","g","e">>, Str(
                <<"Y","o","u","r"," ","p","r","o","d","u","c","t","s"," ",
                    "a","r","e","n","'","t"," ","v","i","s","i","b","l","e",
                    " ","y","e","t","."," ","O","n","c","e"," ","o","n","b",
                    "o","a","r","d","i","n","g"," ","i","s"," ","c","o","m",
                    "p","l","e","t","e",","," ","y","o","u","r"," ","a","c",
                    "c","o","u","n","t"," ","w","i","l","l"," ","b","e"," ",
                    "a","c","t","i","v","a","t","e","d"," ","w","i","t","h",
                    "i","n"," ","4","8"," ","h","o","u","r","s",","," ","a",
                    "n","d"," ","y","o","u","r"," ","l","i","s","t","i","n",
                    "g","s"," ","w","i","l","l"," ","g","o"," ","l","i","v",
                    "e",".">>)),
            Item(<<"u","s","e","r","_","i","d">>, user_id)>>), counts)
    ELSE Return(Dict(<<
            Item(<<"s","t","a","t","u","s">>, Str(<<"o","n","_","h","o","l",
                "d">>)),
            Item(<<"m","e","s","s","a","g","e">>, Str(
                <<"Y","o","u","r"," ","a","c","c","o","u","n","t"," ","i",
                    "s"," ","o","n"," ","h","o","l","d","."," ","P","l","e",
                    "a","s","e"," ","c","o","n","t","a","c","t"," ","s","u",
                    "p","p","o","r","t"," ","i","f"," ","y","o","u"," ","h",
                    "a","v","e"," ","q","u","e","s","t","i","o","n","s",".">>)),
            Item(<<"u","s","e","r","_","i","d">>, user_id)>>), counts)


get_user_status(counts, user_id) ==
    IF user_id.kind # "str"
    THEN Raise(AttributeError(user_id, <<"s","t","a","r","t","s","w","i",
        "t","h">>), counts)
    ELSE IF startswith(user_id.text, <<"5">>)
    THEN LET retry_key == <<"u","s","e","r","_">> \o user_id.text
             incremented == increment_retry(counts, retry_key)
             current_retry == incremented[retry_key]
         IN  IF current_retry < MAX_RETRIES
             THEN Return(Dict(<<
                    Item(<<"s","t","a","t","u","s">>, Str(<<"r","e","t","r",
                        "y","i","n","g">>)),
                    Item(<<"m","e","s","s","a","g","e">>, Str(RetryingMessage(current_retry))),
                    Item(<<"r","e","t","r","y","_","n","e","e","d","e","d">>, Bool(TRUE)),
                    Item(<<"a","u","t","o","_","r","e","t","r","y">>, Bool(TRUE)),
                    Item(<<"u","s","e","r","_","i","d">>, user_id)>>), incremented)
             ELSE Return(Dict(<<
                    Item(<<"s","t","a","t","u","s">>, Str(<<"o","n","_","h",
                        "o","l","d">>)),
                    Item(<<"r","e","a","s","o","n","_","c","o","d","e">>, Str(<<
                        "M","A","X","_","R","E","T","R","I","E","S","_","E",
                        "X","C","E","E","D","E","D">>)),
                    Item(<<"m","e","s","s","a","g","e">>, Str(
                        <<"A","c","c","o","u","n","t"," ","v","e","r","i",
                            "f","i","c","a","t","i","o","n"," ","f","a","i",
                            "l","e","d"," ","a","f","t","e","r"," ","m","u",
                            "l","t","i","p","l","e"," ","a","t","t","e","m",
                            "p","t","s">>)),
                    Item(<<"u","s","e","r","_","i","d">>, user_id)>>),
                    reset_retries(incremented, retry_key))
    ELSE IF startswith(user_id.text, <<"1">>)
    THEN Return(Dict(<<
            Item(<<"s","t","a","t","u","s">>, Str(<<"a","c","t","i","v","e">>)),
            Item(<<"m","e","s","s","a","g","e">>, Str(<<"Y","o","u","r"," ",
                "a","c","c","o","u","n","t"," ","i","s"," ","a","c","t","i",
                "v","e",".">>)),
            Item(<<"u","s","e","r","_","i","d">>, user_id)>>), counts)
    ELSE IF startswith(user_id.text, <<"2">>)
    THEN Return(Dict(<<
            Item(<<"s","t","a","t","u","s">>, Str(<<"o","n","b","o","a","r",
                "d","i","n","g">>)),
            Item(<<"m","e","s","s","a","g","e">>, Str(
                <<"Y","o","u","r"," ","p","r","o","d","u","c","t","s"," ",
                    "a","r","e","n","'","t"," ","v","i","s","i","b","l","e",
                    " ","y","e","t","."," ","O","n","c","e"," ","o","n","b",
                    "o","a","r","d","i","n","g"," ","i","s"," ","c","o","m",
                    "p","l","e","t","e",","," ","y","o","u","r"," ","a","c",
                    "c","o","u","n","t"," ","w","i","l","l"," ","b","e"," ",
                    "a","c","t","i","v","a","t","e","d"," ","w","i","t","h",
                    "i","n"," ","4","8"," ","h","o","u","r","s",","," ","a",
                    "n","d"," ","y","o","u","r"," ","l","i","s","t","i","n",
                    "g","s"," ","w","i","l","l"," ","g","o"," ","l","i","v",
                    "e",".">>)),
            Item(<<"u","s","e","r","_","i","d">>, user_id)>>), counts)
    ELSE Return(Dict(<<
            Item(<<"s","t","a","t","u","s">>, Str(<<"o","n","_","h","o","l",
                "d">>)),
            Item(<<"m","e","s","s","a","g","e">>, Str(
                <<"Y","o","u","r"," ","a","c","c","o","u","n","t"," ","i",
                    "s"," ","o","n"," ","h","o","l","d","."," ","P","l","e",
                    "a","s","e"," ","c","o","n","t","a","c","t"," ","s","u",
                    "p","p","o","r","t"," ","i","f"," ","y","o","u"," ","h",
                    "a","v","e"," ","q","u","e","s","t","i","o","n","s",".">>)),
            Item(<<"u","s","e","r","_","i","d">>, user_id)>>), counts)

\* a listing result that reports every listing as active
ListingResult_always_active(status, message, listing_id) ==
    Dict(<<Item(<<"s","t","a","t","u","s">>, Str(<<"a","c","t","i","v","e">>)),
           Item(<<"m","e","s","s","a","g","e">>, Str(message)),
           Item(<<"l","i","s","t","i","n","g","_","i","d">>, listing_id)>>)

\* the dict of a listing whose status follows its last character
ListingResult(status, message, listing_id) ==
    Dict(<<Item(<<"s","t","a","t","u","s">>, Str(status)),
           Item(<<"m","e","s","s","a","g","e">>, Str(message)),
           Item(<<"l","i","s","t","i","n","g","_","i","d">>, listing_id)>>)

get_listing_status(counts, listing_id) ==
    IF listing_id.kind # "str"
    THEN Raise(AttributeError(listing_id, <<"s","t","a","r","t","s","w","i",
        "t","h">>), counts)
    ELSE IF startswith(listing_id.text, <<"5">>)
    THEN LET retry_key == <<"l","i","s","t","i","n","g","_">> \o listing_id.text
             incremented == increment_retry(counts, retry_key)
             current_retry == incremented[retry_key]
         IN  IF current_retry < MAX_RETRIES
             THEN Return(Dict(<<
                    Item(<<"s","t","a","t","u","s">>, Str(<<"r","e","t","r",
                        "y","i","n","g">>)),
                    Item(<<"m","e","s","s","a","g","e">>, Str(RetryingMessage(current_retry))),
                    Item(<<"r","e","t","r","y","_","n","e","e","d","e","d">>, Bool(TRUE)),
                    Item(<<"a","u","t","o","_","r","e","t","r","y">>, Bool(TRUE)),
                    Item(<<"l","i","s","t","i","n","g","_","i","d">>, listing_id)>>), incremented)
             ELSE Return(Dict(<<
                    Item(<<"s","t","a","t","u","s">>, Str(<<"e","r","r","o",
                        "r">>)),
                    Item(<<"m","e","s","s","a","g","e">>, Str(
                        <<"M","a","x","i","m","u","m"," ","r","e","t","r",
                            "i","e","s"," ","r","e","a","c","h","e","d"," ",
                            "f","o","r"," ","l","i","s","t","i","n","g",".",
                            " ","T","e","r","m","i","n","a","t","i","n","g",
                            " ","c","o","n","v","e","r","s","a","t","i","o",
                            "n","."," ","P","l","e","a","s","e"," ","t","r",
                            "y"," ","a","g","a","i","n"," ","l","a","t","e",
                            "r","."," ","T","E","R","M","I","N","A","T","E">>)),
                    Item(<<"r","e","t","r","y","_","n","e","e","d","e","d">>, Bool(FALSE)),
                    Item(<<"l","i","s","t","i","n","g","_","i","d">>, listing_id)>>),
                    reset_retries(incremented, retry_key))
    ELSE
    LET last_char == IF truthy(listing_id)
                     THEN listing_id.text[Len(listing_id.text)] ELSE "0"
    IN  IF last_char = "2"
        THEN Return(Dict(<<
                Item(<<"s","t","a","t","u","s">>, Str(<<"b","l","o","c","k",
                    "e","d">>)),
                Item(<<"m","e","s","s","a","g","e">>, Str(
                    <<"Y","o","u","r"," ","l","i","s","t","i","n","g"," ",
                        "i","s"," ","b","l","o","c","k","e","d"," ","d","u",
                        "e"," ","t","o"," ","s","e","l","l","e","r"," ","s",
                        "t","a","t","e"," ","c","h","a","n","g","e",".">>)),
                Item(<<"b","l","o","c","k","_","r","e","a","s","o","n">>, Str(<<
                    "s","e","l","l","e","r","_","s","t","a","t","e","_","c",
                    "h","a","n","g","e">>)),
                Item(<<"l","i","s","t","i","n","g","_","i","d">>, listing_id)>>), counts)
        ELSE IF last_char = "1"
        THEN Return(ListingResult(<<"i","n","a","c","t","i","v","e">>,
                <<"Y","o","u","r"," ","l","i","s","t","i","n","g"," ","i",
                    "s"," ","c","u","r","r","e","n","t","l","y"," ","i","n",
                    "a","c","t","i","v","e","."," ","P","l","e","a","s","e",
                    " ","a","c","t","i","v","a","t","e"," ","i","t"," ","t",
                    "o"," ","b","e"," ","v","i","s","i","b","l","e",".">>,
                listing_id), counts)
        ELSE IF last_char = "3"
        THEN Return(ListingResult(<<"a","r","c","h","i","v","e","d">>,
                <<"Y","o","u","r"," ","l","i","s","t","i","n","g"," ","i",
                    "s"," ","a","r","c","h","i","v","e","d"," ","a","n","d",
                    " ","n","o","t"," ","v","i","s","i","b","l","e"," ","t",
                    "o"," ","c","u","s","t","o","m","e","r","s",".">>,
                listing_id), counts)
        ELSE IF last_char = "4"
        THEN Return(ListingResult(<<"r","f","a">>,
                <<"Y","o","u","r"," ","l","i","s","t","i","n","g"," ","i",
                    "s"," ","p","e","n","d","i","n","g"," ","a","p","p","r",
                    "o","v","a","l"," ","(","R","F","A",")",".">>,
                listing_id), counts)
        ELSE Return(ListingResult(<<"a","c","t","i","v","e">>,
                <<"Y","o","u","r"," ","l","i","s","t","i","n","g"," ","i",
                    "s"," ","a","c","t","i","v","e"," ","a","n","d"," ","v",
                    "i","s","i","b","l","e"," ","t","o"," ","c","u","s","t",
                    "o","m","e","r","s",".">>,
                listing_id), counts)

can_reactivate_listing(counts, block_reason) ==
    Return(Dict(<<
        Item(<<"c","a","n","_","r","e","a","c","t","i","v","a","t","e">>, Bool(TRUE)),
        Item(<<"m","e","s","s","a","g","e">>, Str(<<"L","i","s","t","i","n",
            "g"," ","c","a","n"," ","b","e"," ","r","e","a","c","t","i","v",
            "a","t","e","d",".">>))>>), counts)

\* ticket_id: "TICKET12345" in the CLI front end, "TICKET" and the last five
\* digits of the clock in the browser front end
create_support_ticket(counts, ticket_id, user_id, listing_id, reason) ==
    Return(Dict(<<
        Item(<<"t","i","c","k","e","t","_","i","d">>, Str(ticket_id)),
        Item(<<"s","t","a","t","u","s">>, Str(<<"c","r","e","a","t","e","d">>)),
        Item(<<"m","e","s","s","a","g","e">>, Str(
            <<"S","u","p","p","o","r","t"," ","t","i","c","k","e","t"," ",
                "c","r","e","a","t","e","d"," ","f","o","r"," ","u","s","e",
                "r"," ">> \o py_str(user_id)
            \o <<" ","r","e","g","a","r","d","i","n","g"," ","l","i","s",
                "t","i","n","g"," ">> \o py_str(listing_id)
            \o <<":"," ">> \o py_str(reason)))>>), counts)

\* brand approval that counts an attempt in the ledger like the two status
\* operations do
get_brand_approval_status_with_retry(counts, request_id) ==
    Return(Dict(<<Item(<<"s","t","a","t","u","s">>, Str(<<"d","i","s","a","p",
          "p","r","o","v","e","d">>)),
                  Item(<<"t","i","m","e","l","i","n","e","_","h","o","u","r",
                         "s">>, IntVal(<<"8","0">>))>>),
           increment_retry(counts, <<"b","r","a","n","d","_">> \o request_id.text))

get_brand_approval_status(counts, request_id) ==
    IF truthy(request_id) /\ request_id.kind \in {"int", "float", "bool"}
    THEN Raise(<<"'">> \o type_name(request_id)
               \o <<"'"," ","o","b","j","e","c","t"," ","i","s"," ","n","o",
                   "t"," ","s","u","b","s","c","r","i","p","t","a","b","l",
                   "e">>, counts)
    ELSE IF truthy(request_id) /\ request_id.kind = "dict"
    THEN Raise(<<"-","1">>, counts)
    ELSE
    LET last_char == IF truthy(request_id)
                     THEN request_id.text[Len(request_id.text)] ELSE "0"
    IN  IF last_char = "1"
        THEN Return(Dict(<<
                Item(<<"s","t","a","t","u","s">>, Str(<<"a","p","p","r","o",
                    "v","e","d">>)),
                Item(<<"m","e","s","s","a","g","e">>, Str(
                    <<"Y","o","u","r"," ","b","r","a","n","d"," ","a","p",
                        "p","r","o","v","a","l"," ","r","e","q","u","e","s",
                        "t"," ","i","s"," ","a","p","p","r","o","v","e","d",
                        ".">>))>>), counts)
        ELSE IF last_char = "2"
        THEN Return(Dict(<<
                Item(<<"s","t","a","t","u","s">>, Str(<<"i","n","_","p","r",
                    "o","g","r","e","s","s">>)),
                Item(<<"m","e","s","s","a","g","e">>, Str(
                    <<"B","r","a","n","d"," ","a","p","p","r","o","v","a",
                        "l"," ","i","s"," ","s","t","i","l","l"," ","i","n",
                        " ","p","r","o","g","r","e","s","s",".">>)),
                Item(<<"t","i","m","e","l","i","n","e","_","h","o","u","r",
                    "s">>, IntVal(<<"4","8">>))>>), counts)
        ELSE Return(Dict(<<
                Item(<<"s","t","a","t","u","s">>, Str(<<"d","i","s","a","p",
                    "p","r","o","v","e","d">>)),
                Item(<<"m","e","s","s","a","g","e">>, Str(
                    <<"B","r","a","n","d"," ","a","p","p","r","o","v","a",
                        "l"," ","d","i","s","a","p","p","r","o","v","e","d",
                        "."," ","A","d","d","i","t","i","o","n","a","l"," ",
                        "s","t","e","p","s"," ","r","e","q","u","i","r","e",
                        "d",".">>)),
                Item(<<"t","i","m","e","l","i","n","e","_","h","o","u","r",
                    "s">>, IntVal(<<"8","0">>))>>), counts)

---------------------------------------------------------------------------
(* The function-call shape:  ^\s*FUNCTION_CALL:(\w+)\s*(\{.*\})\s*$        *)
(* with re.DOTALL.  The leading \s*, the \w+ and the \s* after it are over *)
(* disjoint classes and each is followed by a character outside its class, *)
(* so each consumes its maximal run; the closing brace is followed by \s*$ *)
(* alone, so it is the last character that is not whitespace.              *)

\* where (\w+) starts: after the leading \s* and FUNCTION_CALL:
NameStart(s) == SkipWhile(s, 1, Whitespace) + Len(FUNCTION_CALL)

\* where (\w+) ends and the \s* after it starts
NameEnd(s) == SkipWhile(s, NameStart(s), WordChars)

\* where (\{.*\}) starts
BraceStart(s) == SkipWhile(s, NameEnd(s), Whitespace)

\* where (\{.*\}) ends
BraceEnd(s) == Len(rstrip(s))

NoMatch == [matched |-> FALSE, func_name |-> <<>>, params_str |-> <<>>]

\* the positions after the opening brace that hold a closing brace
ClosingBraces(s) ==
    {n \in (BraceStart(s) + 1)..Len(s) : s[n] = "}"}

\* the pattern without \s*$ at its end: anything may follow the braces
re_search_open_end(s) ==
    IF /\ NameStart(s) - 1 <= Len(s)
       /\ SubSeq(s, NameStart(s) - Len(FUNCTION_CALL), NameStart(s) - 1) = FUNCTION_CALL
       /\ NameEnd(s) > NameStart(s)
       /\ BraceStart(s) <= Len(s)
       /\ s[BraceStart(s)] = "{"
       /\ ClosingBraces(s) # {}
    THEN [matched |-> TRUE,
          func_name |-> SubSeq(s, NameStart(s), NameEnd(s) - 1),
          params_str |-> SubSeq(s, BraceStart(s),
                                CHOOSE n \in ClosingBraces(s) :
                                    \A m \in ClosingBraces(s) : m <= n)]
    ELSE NoMatch

\* the pattern without re.DOTALL: no newline between the braces
re_search_no_dotall(s) ==
    IF /\ NameStart(s) - 1 <= Len(s)
       /\ SubSeq(s, NameStart(s) - Len(FUNCTION_CALL), NameStart(s) - 1) = FUNCTION_CALL
       /\ NameEnd(s) > NameStart(s)
       /\ BraceStart(s) <= Len(s)
       /\ s[BraceStart(s)] = "{"
       /\ BraceEnd(s) > BraceStart(s)
       /\ s[BraceEnd(s)] = "}"
       /\ \A n \in BraceStart(s)..BraceEnd(s) : s[n] # "\n"
    THEN [matched |-> TRUE,
          func_name |-> SubSeq(s, NameStart(s), NameEnd(s) - 1),
          params_str |-> SubSeq(s, BraceStart(s), BraceEnd(s))]
    ELSE NoMatch

\* match = re.search(pattern, message, re.DOTALL) and match.groups()
re_search(s) ==
    LET name_start == NameStart(s)
        name_end == NameEnd(s)
        brace_start == BraceStart(s)
        brace_end == BraceEnd(s)
    IN  IF /\ name_start - 1 <= Len(s)
           /\ SubSeq(s, name_start - Len(FUNCTION_CALL), name_start - 1) = FUNCTION_CALL
           /\ name_end > name_start
           /\ brace_start <= Len(s)
           /\ s[brace_start] = "{"
           /\ brace_end > brace_start
           /\ s[brace_end] = "}"
        THEN [matched |-> TRUE,
              func_name |-> SubSeq(s, name_start, name_end - 1),
              params_str |-> SubSeq(s, brace_start, brace_end)]
        ELSE NoMatch

---------------------------------------------------------------------------
(* Function-call codec.  execute_function_call gives the text it returns  *)
(* (reply), the ledger and the browser's user_context it leaves, the      *)
(* return statement it left by (branch) and the backend operation it      *)
(* called (called, <<>> when none).                                       *)

\* s[-n:]
LastChars(s, n) ==
    IF Len(s) <= n THEN s ELSE SubSeq(s, Len(s) - n + 1, Len(s))

Error(status, message) ==
    Dict(<<Item(<<"s","t","a","t","u","s">>, Str(status)), Item(<<"m","e","s",
          "s","a","g","e">>, Str(message))>>)

CriticalError(technical_details) ==
    Dict(<<Item(<<"s","t","a","t","u","s">>, Str(<<"c","r","i","t","i","c",
          "a","l","_","e","r","r","o","r">>)),
           Item(<<"m","e","s","s","a","g","e">>, Str(<<"S","y","s","t","e",
                 "m"," ","f","a","i","l","u","r","e"," ","-"," ","c","o","n",
                 "t","a","c","t"," ","s","u","p","p","o","r","t">>)),
           Item(<<"t","e","c","h","n","i","c","a","l","_","d","e","t","a","i",
                  "l","s">>, Str(technical_details))>>)

Codec(reply, counts, context, branch, called) ==
    [reply |-> reply, counts |-> counts, context |-> context,
     branch |-> branch, called |-> called]

\* a return of json.dumps(obj, ensure_ascii=...): the text, and with it the
\* object that was serialized
Dumped(obj, ensure_ascii, counts, context, branch, called) ==
    [obj |-> obj]
    @@ Codec(json_dumps(obj, ensure_ascii), counts, context, branch, called)

\* a backend call with no except clause around it: the exception leaves
\* execute_function_call
AfterCall_no_except(out, context, called, prefix) ==
    IF out.exc = <<>>
    THEN Dumped(out.result, FALSE, out.counts, context,
               "success", called)
    ELSE Codec(<<>>, out.counts, context, "raised", called)

\* what follows a backend call: the result serialized, or the except clause
AfterCall(out, context, called, prefix) ==
    IF out.exc = <<>>
    THEN Dumped(out.result, FALSE, out.counts, context,
               "success", called)
    ELSE Dumped(CriticalError(prefix \o out.exc), TRUE, out.counts,
               context, "critical_error", called)

\* params[key] in the place of params.get: no default for a key the object
\* does not hold
params_get_no_default(params, key, default) ==
    Slot(params.items, key)

\* params.get(key, default) with a str default
params_get(params, key, default) ==
    dict_get(Slot(params.items, key), Str(default))

\* the text in front of str(e) in the except clause of the CLI front end
CriticalPrefix ==
    <<"u203c","ufe0f">> \o <<" ","[","e","x","e","c","u","t","e","_","f","u",
                             "n","c","t","i","o","n","_","c","a","l","l","]",
                             " ","C","R","I","T","I","C","A","L"," ","E","R",
                             "R","O","R",":"," ">>

\* CLI front end: the dispatch on func_name of execute_function_call
dispatch(counts, context, func_name, params) ==
    IF func_name = <<"g","e","t","_","u","s","e","r","_","s","t","a","t","u",
                     "s">>
    THEN AfterCall(get_user_status(counts,
                        params_get(params, <<"u","s","e","r","_","i","d">>, <<
                              "d","e","f","a","u","l","t">>)),
                   context, func_name, CriticalPrefix)
    ELSE IF func_name = <<"g","e","t","_","l","i","s","t","i","n","g","_","s",
                          "t","a","t","u","s">>
    THEN AfterCall(get_listing_status(counts,
                        params_get(params, <<"l","i","s","t","i","n","g","_",
                              "i","d">>, <<"d","e","f","a","u","l","t">>)),
                   context, func_name, CriticalPrefix)
    ELSE IF func_name = <<"c","a","n","_","r","e","a","c","t","i","v","a","t",
                          "e","_","l","i","s","t","i","n","g">>
    THEN AfterCall(can_reactivate_listing(counts,
                        params_get(params, <<"b","l","o","c","k","_","r","e",
                              "a","s","o","n">>, <<>>)),
                   context, func_name, CriticalPrefix)
    ELSE IF func_name = <<"c","r","e","a","t","e","_","s","u","p","p","o","r",
                          "t","_","t","i","c","k","e","t">>
    THEN AfterCall(create_support_ticket(counts, <<"T","I","C","K","E","T",
          "1","2","3","4","5">>,
                        params_get(params, <<"u","s","e","r","_","i","d">>, <<>>),
                        params_get(params, <<"l","i","s","t","i","n","g","_",
                              "i","d">>, <<>>),
                        params_get(params, <<"r","e","a","s","o","n">>, <<>>)),
                   context, func_name, CriticalPrefix)
    ELSE IF func_name = <<"g","e","t","_","b","r","a","n","d","_","a","p","p",
                          "r","o","v","a","l","_","s","t","a","t","u","s">>
    THEN AfterCall(get_brand_approval_status(counts,
                        params_get(params, <<"r","e","q","u","e","s","t","_",
                              "i","d">>, <<>>)),
                   context, func_name, CriticalPrefix)
    ELSE Dumped(Error(<<"e","r","r","o","r">>,
            <<"u274c">> \o <<" ","[","e","x","e","c","u","t","e","_","f","u",
                             "n","c","t","i","o","n","_","c","a","l","l","]",
                             " ","U","N","K","N","O","W","N"," ","F","U","N",
                             "C","T","I","O","N",":"," ">>
            \o func_name), TRUE, counts, context, "unknown_function", <<>>)

InvalidFormat ==
    Error(<<"e","r","r","o","r">>,
          <<"u274c">> \o <<" ","[","e","x","e","c","u","t","e","_","f","u",
                           "n","c","t","i","o","n","_","c","a","l","l","]",
                           " ","I","N","V","A","L","I","D"," ","F","O","R",
                           "M","A","T"," ","-"," ","M","i","s","s","i","n",
                           "g"," ","F","U","N","C","T","I","O","N","_","C",
                           "A","L","L",":"," ","p","r","e","f","i","x"," ",
                           "o","r"," ","m","a","l","f","o","r","m","e","d",
                           " ","p","a","r","a","m","e","t","e","r","s">>)

\* str(e) of a JSONDecodeError is the one element "str(e)"
InvalidJson ==
    Error(<<"e","r","r","o","r">>,
          <<"u274c">> \o <<" ","[","e","x","e","c","u","t","e","_","f","u",
                           "n","c","t","i","o","n","_","c","a","l","l","]",
                           " ","I","N","V","A","L","I","D"," ","J","S","O",
                           "N",":"," ">>
          \o <<"str(e)">>)

\* the five names the dispatch knows
FunctionNames ==
    {<<"g","e","t","_","u","s","e","r","_","s","t","a","t","u","s">>,
     <<"g","e","t","_","l","i","s","t","i","n","g","_","s","t","a","t","u","s">>,
     <<"c","a","n","_","r","e","a","c","t","i","v","a","t","e","_","l","i",
       "s","t","i","n","g">>,
     <<"c","r","e","a","t","e","_","s","u","p","p","o","r","t","_","t","i",
       "c","k","e","t">>,
     <<"g","e","t","_","b","r","a","n","d","_","a","p","p","r","o","v","a",
       "l","_","s","t","a","t","u","s">>}

\* the body of the try with the name looked up before the JSON is parsed
decode_name_first(counts, context, match, params) ==
    IF ~match.matched
    THEN Dumped(InvalidFormat, TRUE, counts, context,
               "invalid_format", <<>>)
    ELSE IF match.func_name \notin FunctionNames
    THEN dispatch(counts, context, match.func_name, Dict(<<>>))
    ELSE IF ~params.ok
    THEN Dumped(InvalidJson, TRUE, counts, context,
               "invalid_json", <<>>)
    ELSE dispatch(counts, context, match.func_name, params.val)

\* the body of the try: match is what re.search gave and params what
\* json.loads gave on its second group
decode(counts, context, match, params) ==
    IF ~match.matched
    THEN Dumped(InvalidFormat, TRUE, counts, context,
               "invalid_format", <<>>)
    ELSE IF ~params.ok
    THEN Dumped(InvalidJson, TRUE, counts, context,
               "invalid_json", <<>>)
    ELSE dispatch(counts, context, match.func_name, params.val)

\* CLI front end
execute_function_call(counts, context, message) ==
    LET match == re_search(message)
    IN  decode(counts, context, match, json_loads(match.params_str))

\* the text in front of str(e) in the except clause of the browser front end
CriticalPrefix_st == <<"C","r","i","t","i","c","a","l"," ","e","r","r","o",
                       "r",":"," ">>

\* browser front end: the id is saved to user_context before the call; now
\* is int(time.time()) at the creation of a ticket
dispatch_st(counts, context, func_name, params, now) ==
    IF func_name = <<"g","e","t","_","u","s","e","r","_","s","t","a","t","u",
                     "s">>
    THEN AfterCall(get_user_status(counts,
                        params_get(params, <<"u","s","e","r","_","i","d">>, <<
                              "d","e","f","a","u","l","t">>)),
                   [context EXCEPT !.user_id =
                        params_get(params, <<"u","s","e","r","_","i","d">>, <<
                              "d","e","f","a","u","l","t">>)],
                   func_name, CriticalPrefix_st)
    ELSE IF func_name = <<"g","e","t","_","l","i","s","t","i","n","g","_","s",
                          "t","a","t","u","s">>
    THEN AfterCall(get_listing_status(counts,
                        params_get(params, <<"l","i","s","t","i","n","g","_",
                              "i","d">>, <<"d","e","f","a","u","l","t">>)),
                   [context EXCEPT !.listing_id =
                        params_get(params, <<"l","i","s","t","i","n","g","_",
                              "i","d">>, <<"d","e","f","a","u","l","t">>)],
                   func_name, CriticalPrefix_st)
    ELSE IF func_name = <<"c","a","n","_","r","e","a","c","t","i","v","a","t",
                          "e","_","l","i","s","t","i","n","g">>
    THEN AfterCall(can_reactivate_listing(counts,
                        params_get(params, <<"b","l","o","c","k","_","r","e",
                              "a","s","o","n">>, <<>>)),
                   context, func_name, CriticalPrefix_st)
    ELSE IF func_name = <<"c","r","e","a","t","e","_","s","u","p","p","o","r",
                          "t","_","t","i","c","k","e","t">>
    THEN AfterCall(create_support_ticket(counts,
                        <<"T","I","C","K","E","T">> \o LastChars(int_str(now), 5),
                        params_get(params, <<"u","s","e","r","_","i","d">>, <<>>),
                        params_get(params, <<"l","i","s","t","i","n","g","_",
                              "i","d">>, <<>>),
                        params_get(params, <<"r","e","a","s","o","n">>, <<>>)),
                   context, func_name, CriticalPrefix_st)
    ELSE IF func_name = <<"g","e","t","_","b","r","a","n","d","_","a","p","p",
                          "r","o","v","a","l","_","s","t","a","t","u","s">>
    THEN AfterCall(get_brand_approval_status(counts,
                        params_get(params, <<"r","e","q","u","e","s","t","_",
                              "i","d">>, <<"d","e","f","a","u","l","t">>)),
                   [context EXCEPT !.request_id =
                        params_get(params, <<"r","e","q","u","e","s","t","_",
                              "i","d">>, <<"d","e","f","a","u","l","t">>)],
                   func_name, CriticalPrefix_st)
    ELSE Dumped(Error(<<"e","r","r","o","r">>,
            <<"U","n","k","n","o","w","n"," ","f","u","n","c","t","i","o","n",
              ":"," ">> \o func_name), TRUE,
            counts, context, "unknown_function", <<>>)

decode_st(counts, context, match, params, now) ==
    IF ~match.matched
    THEN Dumped(Error(<<"e","r","r","o","r">>, <<"I","n","v","a",
          "l","i","d"," ","f","u","n","c","t","i","o","n"," ","c","a","l","l",
          " ","f","o","r","m","a","t">>), TRUE, counts, context, "invalid_format", <<>>)
    ELSE IF ~params.ok
    THEN Dumped(Error(<<"e","r","r","o","r">>,
            <<"I","n","v","a","l","i","d"," ","J","S","O","N"," ","p","a","r",
              "a","m","e","t","e","r","s",":"," ">> \o <<"str(e)">>), TRUE,
            counts, context, "invalid_json", <<>>)
    ELSE dispatch_st(counts, context, match.func_name, params.val, now)

execute_function_call_st(counts, context, message, now) ==
    LET match == re_search(message)
    IN  decode_st(counts, context, match, json_loads(match.params_str), now)

---------------------------------------------------------------------------
(* Turn Router *)

\* the router returns an agent, None (the chat terminates) or raises
Decision(agent, rule) == [next |-> agent, rule |-> rule]

\* the CLI router without the rstrip of its termination rule
speaker_selection_func_no_rstrip(msgs) ==
    IF msgs = <<>> THEN Decision("SIA", 1)
    ELSE
    LET last_msg == msgs[Len(msgs)]
        content == dict_get(last_msg.content, Str(<<>>))
        sender == dict_get(last_msg.name, Str(<<>>))
    IN  IF content.kind # "str" THEN Decision("AttributeError", 0)
        ELSE IF endswith(content.text, TERMINATE)
        THEN Decision("None", 2)
        ELSE IF sender = Str(SIA) /\ re_search(content.text).matched
        THEN Decision("FunctionExecutor", 3)
        ELSE IF sender = Str(SIA) /\ ~contains(FUNCTION_CALL, content.text)
        THEN Decision("User", 4)
        ELSE IF sender = Str(FunctionExecutor)
        THEN Decision("SIA", 5)
        ELSE IF sender = Str(User)
        THEN Decision("SIA", 6)
        ELSE Decision("User", 7)

\* the CLI router without its rule for the sender User
speaker_selection_func_no_user_rule(msgs) ==
    IF msgs = <<>> THEN Decision("SIA", 1)
    ELSE
    LET last_msg == msgs[Len(msgs)]
        content == dict_get(last_msg.content, Str(<<>>))
        sender == dict_get(last_msg.name, Str(<<>>))
    IN  IF content.kind # "str" THEN Decision("AttributeError", 0)
        ELSE IF endswith(rstrip(content.text), TERMINATE)
        THEN Decision("None", 2)
        ELSE IF sender = Str(SIA) /\ re_search(content.text).matched
        THEN Decision("FunctionExecutor", 3)
        ELSE IF sender = Str(SIA) /\ ~contains(FUNCTION_CALL, content.text)
        THEN Decision("User", 4)
        ELSE IF sender = Str(FunctionExecutor)
        THEN Decision("SIA", 5)
        ELSE Decision("User", 7)

\* a router that hands every message of SIA with the prefix to
\* FunctionExecutor
speaker_selection_func_routes_on_prefix(msgs) ==
    IF msgs = <<>> THEN Decision("SIA", 1)
    ELSE
    LET last_msg == msgs[Len(msgs)]
        content == dict_get(last_msg.content, Str(<<>>))
        sender == dict_get(last_msg.name, Str(<<>>))
    IN  IF content.kind # "str" THEN Decision("AttributeError", 0)
        ELSE IF endswith(rstrip(content.text), TERMINATE)
        THEN Decision("None", 2)
        ELSE IF sender = Str(SIA) /\ contains(FUNCTION_CALL, content.text)
        THEN Decision("FunctionExecutor", 3)
        ELSE IF sender = Str(SIA) /\ ~contains(FUNCTION_CALL, content.text)
        THEN Decision("User", 4)
        ELSE IF sender = Str(FunctionExecutor)
        THEN Decision("SIA", 5)
        ELSE IF sender = Str(User)
        THEN Decision("SIA", 6)
        ELSE Decision("User", 7)

\* a router that gives the first move of an empty session to User
speaker_selection_func_opens_with_user(msgs) ==
    IF msgs = <<>> THEN Decision("User", 1)
    ELSE
    LET last_msg == msgs[Len(msgs)]
        content == dict_get(last_msg.content, Str(<<>>))
        sender == dict_get(last_msg.name, Str(<<>>))
    IN  IF content.kind # "str" THEN Decision("AttributeError", 0)
        ELSE IF endswith(rstrip(content.text), TERMINATE)
        THEN Decision("None", 2)
        ELSE IF sender = Str(SIA) /\ re_search(content.text).matched
        THEN Decision("FunctionExecutor", 3)
        ELSE IF sender = Str(SIA) /\ ~contains(FUNCTION_CALL, content.text)
        THEN Decision("User", 4)
        ELSE IF sender = Str(FunctionExecutor)
        THEN Decision("SIA", 5)
        ELSE IF sender = Str(User)
        THEN Decision("SIA", 6)
        ELSE Decision("User", 7)

\* a router that hands the message of User to Coordinator
speaker_selection_func_asks_coordinator(msgs) ==
    IF msgs = <<>> THEN Decision("SIA", 1)
    ELSE
    LET last_msg == msgs[Len(msgs)]
        content == dict_get(last_msg.content, Str(<<>>))
        sender == dict_get(last_msg.name, Str(<<>>))
    IN  IF content.kind # "str" THEN Decision("AttributeError", 0)
        ELSE IF endswith(rstrip(content.text), TERMINATE)
        THEN Decision("None", 2)
        ELSE IF sender = Str(SIA) /\ re_search(content.text).matched
        THEN Decision("FunctionExecutor", 3)
        ELSE IF sender = Str(SIA) /\ ~contains(FUNCTION_CALL, content.text)
        THEN Decision("User", 4)
        ELSE IF sender = Str(FunctionExecutor)
        THEN Decision("SIA", 5)
        ELSE IF sender = Str(User)
        THEN Decision("Coordinator", 6)
        ELSE Decision("User", 7)

\* CLI front end
speaker_selection_func(msgs) ==
    IF msgs = <<>> THEN Decision("SIA", 1)
    ELSE
    LET last_msg == msgs[Len(msgs)]
        content == dict_get(last_msg.content, Str(<<>>))
        sender == dict_get(last_msg.name, Str(<<>>))
    IN  IF content.kind # "str" THEN Decision("AttributeError", 0)
        ELSE IF endswith(rstrip(content.text), TERMINATE)
        THEN Decision("None", 2)
        ELSE IF sender = Str(SIA) /\ re_search(content.text).matched
        THEN Decision("FunctionExecutor", 3)
        ELSE IF sender = Str(SIA) /\ ~contains(FUNCTION_CALL, content.text)
        THEN Decision("User", 4)
        ELSE IF sender = Str(FunctionExecutor)
        THEN Decision("SIA", 5)
        ELSE IF sender = Str(User)
        THEN Decision("SIA", 6)
        ELSE Decision("User", 7)

\* the browser router with the result of FunctionExecutor sent to User
speaker_selection_func_st_result_to_user(msgs) ==
    IF msgs = <<>> THEN Decision("SIA", 1)
    ELSE
    LET last_msg == msgs[Len(msgs)]
        content == dict_get(last_msg.content, Str(<<>>))
        sender == dict_get(last_msg.name, Str(<<>>))
    IN  IF truthy(content) /\ content.kind # "str"
        THEN Decision("AttributeError", 0)
        ELSE IF truthy(content) /\ endswith(rstrip(content.text), TERMINATE)
        THEN Decision("None", 2)
        ELSE IF sender = Str(SIA) /\ truthy(content)
                /\ re_search(content.text).matched
        THEN Decision("FunctionExecutor", 3)
        ELSE IF sender = Str(SIA) /\ truthy(content)
                /\ ~contains(FUNCTION_CALL, content.text)
        THEN Decision("User", 4)
        ELSE IF sender = Str(FunctionExecutor) /\ truthy(content)
        THEN Decision("User", 5)
        ELSE IF sender = Str(User) /\ truthy(content)
        THEN Decision("SIA", 6)
        ELSE Decision("User", 7)

\* browser front end: every rule is guarded by the truth value of content
speaker_selection_func_st(msgs) ==
    IF msgs = <<>> THEN Decision("SIA", 1)
    ELSE
    LET last_msg == msgs[Len(msgs)]
        content == dict_get(last_msg.content, Str(<<>>))
        sender == dict_get(last_msg.name, Str(<<>>))
    IN  IF truthy(content) /\ content.kind # "str"
        THEN Decision("AttributeError", 0)
        ELSE IF truthy(content) /\ endswith(rstrip(content.text), TERMINATE)
        THEN Decision("None", 2)
        ELSE IF sender = Str(SIA) /\ truthy(content)
                /\ re_search(content.text).matched
        THEN Decision("FunctionExecutor", 3)
        ELSE IF sender = Str(SIA) /\ truthy(content)
                /\ ~contains(FUNCTION_CALL, content.text)
        THEN Decision("User", 4)
        ELSE IF sender = Str(FunctionExecutor) /\ truthy(content)
        THEN Decision("SIA", 5)
        ELSE IF sender = Str(User) /\ truthy(content)
        THEN Decision("SIA", 6)
        ELSE Decision("User", 7)

---------------------------------------------------------------------------
(* State *)

VARIABLES
    retry_counts,     \* the Retry Ledger (module-level dict retry_counts)
    user_context,     \* st.session_state.user_context of the browser
    is_chat_active,   \* st.session_state.is_chat_active of the browser
    messages,         \* groupchat.messages of the session
    selected,         \* what the Turn Router returned last, and which router
    call,             \* the front end, text and clock of a codec call
    reply,            \* what execute_function_call returned for call
    sessions,         \* per session: times started, backend calls since
    attempts,         \* per operation and id: calls since the process started
    result,           \* the last backend call and what it gave
    loop,             \* the conversation loop: front end, state, round, active
    conversation_history,  \* st.session_state.conversation_history
    is_initialized,   \* st.session_state.is_initialized of the browser
    handler           \* the handler of the page that is running the manager

vars ==
    <<retry_counts, user_context, is_chat_active, messages, selected, call,
      reply, sessions, attempts, result, loop, conversation_history,
      is_initialized, handler>>

\* what the page of the browser shows and keeps besides the session
page == <<conversation_history, is_initialized, handler>>

Message(name, content) == [name |-> name, content |-> content]

\* the opening utterance that start_chat and initialize_chat send
InitialMessage ==
    Message(Str(User),
            Str(<<"I"," ","n","e","e","d"," ","h","e","l","p"," ","w","i",
                "t","h"," ","m","y"," ","l","i","s","t","i","n","g"," ","o",
                "r"," ","b","r","a","n","d"," ","a","p","p","r","o","v","a",
                "l">>))

NoContext ==
    [user_id |-> None, listing_id |-> None, request_id |-> None]

NoDecision == [fe |-> "none", next |-> "", rule |-> 0]

NoCall == [fe |-> "none", message |-> <<>>, now |-> 0, counts |-> <<>>]

NoReply == Codec(<<>>, <<>>, NoContext, "none", <<>>)

\* the sessions a process serves
Sessions == {1, 2}

NoSessions == [s \in Sessions |-> [started |-> 0, calls |-> 0]]

NoResult ==
    [session |-> 0, nth |-> 0, func_name |-> <<>>, id |-> <<>>,
     out |-> Return(None, <<>>)]

NoLoop ==
    [fe |-> "none", state |-> "Idle", round |-> 0, active |-> "",
     cause |-> "none"]

---------------------------------------------------------------------------
(* Turn Router on every last message: RouterSpec *)

AFunctionCall ==
    FUNCTION_CALL \o <<"g","e","t","_","u","s","e","r","_","s","t","a","t",
        "u","s","{","\"","u","s","e","r","_","i","d","\"",":"," ","\"","1",
        "\"","}">>

RouterHeads ==
    {<<>>, <<" ">>, <<"x">>}

RouterCores ==
    {<<>>,
     AFunctionCall,
     FUNCTION_CALL \o <<"f"," ","{","\n","\"","a","\"",":"," ","\"","b",
         "\"","}">>,
     FUNCTION_CALL \o <<"{","}">>,
     FUNCTION_CALL \o <<"f">>,
     FUNCTION_CALL \o <<"f","{","T","E","R","M","I","N","A","T","E","}">>,
     <<"P","l","e","a","s","e"," ","p","r","o","v","i","d","e"," ","l","i",
         "s","t","i","n","g"," ","I","D",".">>,
     <<"{","\"","s","t","a","t","u","s","\"",":"," ","\"","e","r","r","o",
         "r","\"",","," ","\"","m","e","s","s","a","g","e","\"",":"," ",
         "\"","t","r","y"," ","l","a","t","e","r","."," ","T","E","R","M",
         "I","N","A","T","E","\"","}">>,
     <<"t","e","r","m","i","n","a","t","e">>,
     <<"T","E","R","M","I","N","A","T">>}

RouterTails ==
    {<<>>, <<" ">>, <<"\n">>, <<"x">>, <<"}">>, TERMINATE, <<" ","T","E",
        "R","M","I","N","A","T","E">>,
     <<" ","T","E","R","M","I","N","A","T","E"," ","\n">>, <<"T","E","R",
         "M","I","N","A","T","E",".">>}

RouterTexts ==
    {h \o c \o t : h \in RouterHeads, c \in RouterCores, t \in RouterTails}

RouterNames ==
    {Str(SIA), Str(FunctionExecutor), Str(User), Str(Coordinator),
     Str(<<"s","i","a">>), Missing, None, IntVal(<<"5">>)}

RouterContents ==
    {Str(t) : t \in RouterTexts}
    \cup {Missing, None, IntVal(<<"0">>), IntVal(<<"5">>), Bool(TRUE)}

RouterMessages ==
    {Message(n, c) : n \in RouterNames, c \in RouterContents}

RouterInit ==
    /\ retry_counts = <<>>
    /\ user_context = NoContext
    /\ is_chat_active = TRUE
    /\ messages \in {<<>>, <<InitialMessage>>}
                   \cup {<<m>> : m \in RouterMessages}
                   \cup {<<InitialMessage, m>> : m \in RouterMessages}
    /\ selected = NoDecision
    /\ call = NoCall
    /\ reply = NoReply
    /\ sessions = NoSessions
    /\ attempts = <<>>
    /\ result = NoResult
    /\ loop = NoLoop
    /\ conversation_history = <<>>
    /\ is_initialized = FALSE
    /\ handler = "none"

\* CLI: CustomGroupChat.select_speaker
select_speaker ==
    /\ selected.fe = "none"
    /\ selected' = [fe |-> "cli",
                    next |-> speaker_selection_func(messages).next,
                    rule |-> speaker_selection_func(messages).rule]
    /\ UNCHANGED <<page, retry_counts, user_context, is_chat_active, messages, call,
                   reply, sessions, attempts, result, loop>>

\* browser: CustomGroupChat.select_speaker; the termination rule also clears
\* is_chat_active
select_speaker_st ==
    /\ selected.fe = "none"
    /\ selected' = [fe |-> "st",
                    next |-> speaker_selection_func_st(messages).next,
                    rule |-> speaker_selection_func_st(messages).rule]
    /\ is_chat_active' = IF speaker_selection_func_st(messages).rule = 2
                         THEN FALSE ELSE is_chat_active
    /\ UNCHANGED <<page, retry_counts, user_context, messages, call, reply, sessions,
                   attempts, result, loop>>

RouterNext ==
    \/ select_speaker
    \/ select_speaker_st

RouterSpec == RouterInit /\ [][RouterNext]_vars

\* the last message of the session, its sender and its text
LastMsg == messages[Len(messages)]

LastSender == dict_get(LastMsg.name, Str(<<>>))

LastContent == dict_get(LastMsg.content, Str(<<>>))

Routed == selected.fe # "none" /\ messages # <<>>

\* the last message has a text and it ends, right-trimmed, with the marker
EndsWithMarker ==
    /\ LastContent.kind = "str"
    /\ endswith(rstrip(LastContent.text), TERMINATE)

\* the last message has a text and it does not end with the marker
TextWithoutMarker ==
    /\ LastContent.kind = "str"
    /\ ~endswith(rstrip(LastContent.text), TERMINATE)


---------------------------------------------------------------------------
(* Properties of the Turn Router, stated on the characters of the text   *)
(* and not through the operators the router is computed with.            *)

\* t ends with the marker once its trailing whitespace is removed
MarkerAtEnd(t) ==
    \E n \in Len(TERMINATE)..Len(t) :
        /\ \A i \in (n + 1)..Len(t) : t[i] \in {" ", "\t", "\n", "\r", "\f"}
        /\ \A i \in 1..Len(TERMINATE) : t[n - Len(TERMINATE) + i] = TERMINATE[i]

\* t has the prefix FUNCTION_CALL: at some position
HasPrefix(t) ==
    \E a \in 0..(Len(t) - 14) : \A i \in 1..14 : t[a + i] = FUNCTION_CALL[i]

\* t is whitespace, the prefix, one or more word characters, whitespace, an
\* opening brace, anything, a closing brace, whitespace
HasShape(t) ==
    \E a \in 0..(Len(t) - 14) :
        /\ \A i \in 1..a : t[i] \in Whitespace
        /\ \A i \in 1..14 : t[a + i] = FUNCTION_CALL[i]
        /\ \E b \in (a + 16)..Len(t) :
            /\ t[b] = "{"
            /\ \E w \in (a + 15)..(b - 1) :
                /\ \A i \in (a + 15)..w : t[i] \in WordChars
                /\ \A i \in (w + 1)..(b - 1) : t[i] \in Whitespace
            /\ \E e \in (b + 1)..Len(t) :
                /\ t[e] = "}"
                /\ \A i \in (e + 1)..Len(t) : t[i] \in Whitespace

\* the sender of the last message is one of the three roles the rules name
SenderIsRole ==
    /\ LastSender.kind = "str"
    /\ LastSender.text \in {SIA, FunctionExecutor, User}

\* C1: whenever the text of the last message, right-trimmed, ends with
\* TERMINATE, either router returns None (terminate) by its rule 2,
\* whoever sent it, and so never routes to FunctionExecutor.
C1_TerminateFirst ==
    (Routed /\ LastContent.kind = "str" /\ MarkerAtEnd(LastContent.text))
        => (selected.next = "None" /\ selected.rule = 2)

\* a terminating message of SIA that opens with a complete function call
C1_Witness ==
    /\ Routed
    /\ LastSender = Str(SIA)
    /\ LastContent.kind = "str"
    /\ MarkerAtEnd(LastContent.text)
    /\ \E n \in 1..Len(LastContent.text) :
            HasShape(SubSeq(LastContent.text, 1, n))
    /\ selected.next = "None"

C7_AssistantRouting ==
    (/\ Routed
     /\ LastSender = Str(SIA)
     /\ LastContent.kind = "str"
     /\ ~MarkerAtEnd(LastContent.text))
        => /\ selected.next = "FunctionExecutor" <=> HasShape(LastContent.text)
           /\ ~HasPrefix(LastContent.text) => selected.next = "User"

\* a function call of SIA that spans two lines is routed to FunctionExecutor
C7_Witness ==
    /\ Routed
    /\ LastSender = Str(SIA)
    /\ LastContent.kind = "str"
    /\ HasShape(LastContent.text)
    /\ \E i \in 1..Len(LastContent.text) : LastContent.text[i] = "\n"
    /\ selected.next = "FunctionExecutor"

C9_RouterTotal ==
    Routed =>
        /\ selected.next \in {"SIA", "FunctionExecutor", "User", "None"}
        /\ (\/ LastMsg.name.kind # "str"
            \/ LastMsg.content.kind # "str") => selected.rule = 7


---------------------------------------------------------------------------
(* The codec on every text, from every ledger: CodecSpec *)

CodecNames ==
    FunctionNames \cup {<<"g","e","t","_","s","t","a","t","u","s">>, <<>>}

CodecBodies ==
    {<<"{","}">>,
     <<"{","\"","u","s","e","r","_","i","d","\"",":"," ","\"","1","2","\"",
       ","," ","\"","l","i","s","t","i","n","g","_","i","d","\"",":"," ","\"",
       "4","2","\"",","," ","\"","r","e","a","s","o","n","\"",":"," ","\"",
       "s","a","y"," ","\\","\"","h","i","\\","\"","\\","n","\"","}">>,
     <<"{","\"","u","s","e","r","_","i","d","\"",":"," ","\"","5","2","\"","}">>,
     <<"{","\"","u","s","e","r","_","i","d","\"",":"," ","\"","1","2","\"","}">>,
     <<"{","\"","u","s","e","r","_","i","d","\"",":"," ","\"","2","1","\"","}">>,
     <<"{","\"","u","s","e","r","_","i","d","\"",":"," ","\"","9","\"","}">>,
     <<"{","\"","u","s","e","r","_","i","d","\"",":"," ","5","}">>,
     <<"{","\"","u","s","e","r","_","i","d","\"",":"," ","n","u","l","l","}">>,
     <<"{","\"","l","i","s","t","i","n","g","_","i","d","\"",":"," ","\"","5",
       "2","\"","}">>,
     <<"{","\"","l","i","s","t","i","n","g","_","i","d","\"",":"," ","\"","1",
       "2","\"","}">>,
     <<"{","\"","l","i","s","t","i","n","g","_","i","d","\"",":"," ","\"","1",
       "1","\"","}">>,
     <<"{","\"","l","i","s","t","i","n","g","_","i","d","\"",":"," ","\"","1",
       "3","\"","}">>,
     <<"{","\"","l","i","s","t","i","n","g","_","i","d","\"",":"," ","\"","1",
       "4","\"","}">>,
     <<"{","\"","l","i","s","t","i","n","g","_","i","d","\"",":"," ","\"",
       "\"","}">>,
     <<"{","\"","l","i","s","t","i","n","g","_","i","d","\"",":"," ","t","r",
       "u","e","}">>,
     <<"{","\"","r","e","q","u","e","s","t","_","i","d","\"",":"," ","\"","a",
       "1","\"","}">>,
     <<"{","\"","r","e","q","u","e","s","t","_","i","d","\"",":"," ","\"","a",
       "2","\"","}">>,
     <<"{","\"","r","e","q","u","e","s","t","_","i","d","\"",":"," ","\"","a",
       "9","\"","}">>,
     <<"{","\"","r","e","q","u","e","s","t","_","i","d","\"",":"," ","0","}">>,
     <<"{","\"","r","e","q","u","e","s","t","_","i","d","\"",":"," ","7","}">>,
     <<"{","\"","r","e","q","u","e","s","t","_","i","d","\"",":"," ","{","\"",
       "a","\"",":"," ","1","}","}">>,
     <<"{","\"","r","e","q","u","e","s","t","_","i","d","\"",":"," ","{","}",
       "}">>,
     <<"{","\"","b","l","o","c","k","_","r","e","a","s","o","n","\"",":"," ",
       "\"","s","e","l","l","e","r","_","s","t","a","t","e","_","c","h","a",
       "n","g","e","\"","}">>,
     <<"{","\"","u","s","e","r","_","i","d","\"",":"," ","\"","1","2","\"",
       ","," ","\"","l","i","s","t","i","n","g","_","i","d","\"",":"," ","\"",
       "4","2","\"",","," ","\"","r","e","a","s","o","n","\"",":"," ","\"",
       "R","e","a","c","t","i","v","a","t","i","o","n"," ","r","e","q","u",
       "e","s","t","e","d","\"","}">>,
     <<"{","\"","u","s","e","r","_","i","d","\"",":"," ","1","2",","," ","\"",
       "l","i","s","t","i","n","g","_","i","d","\"",":"," ","n","u","l","l",
       ","," ","\"","r","e","a","s","o","n","\"",":"," ","{","\"","a","\"",
       ":"," ","f","a","l","s","e","}","}">>,
     <<"{","\n","\"","u","s","e","r","_","i","d","\"",":"," ","\"","1","2",
       "\"",",","\n","\"","u","s","e","r","_","i","d","\"",":"," ","\"","5",
       "2","\"","\n","}">>,
     <<"{","\"","u","s","e","r","_","i","d","\"",":"," ","\"","1","\"","}",
       " ","{","\"","l","i","s","t","i","n","g","_","i","d","\"",":"," ","\"",
       "5","2","\"","}">>,
     <<"{","u","s","e","r","_","i","d",":"," ","5","2","}">>,
     <<"{","\"","u","s","e","r","_","i","d","\"",":"," ","\"","5","2","\"",
       ",","}">>,
     <<"{","\"","u","s","e","r","_","i","d","\"",":"," ","\"","5","\n","2",
       "\"","}">>,
     <<"{","'","l","i","s","t","i","n","g","_","i","d","'",":"," ","'","5",
       "2","'","}">>,
     <<"{","\"","l","i","s","t","i","n","g","_","i","d","\"",":"," ","0","5",
       "2","}">>,
     <<"{","\"","l","i","s","t","i","n","g","_","i","d","\""," ","\"","5","2",
       "\"","}">>,
     <<"{","\"","l","i","s","t","i","n","g","_","i","d","\"",":"," ","\"","5",
       "2","\"">>,
     <<"\"","l","i","s","t","i","n","g","_","i","d","\"",":"," ","\"","5","2",
       "\"","}">>,
     <<"{","\"","l","i","s","t","i","n","g","_","i","d","\"",":"," ","\"","5",
       "2","\"","}","}">>}

CodecTails ==
    {<<>>, <<"\n">>, <<" ","T","E","R","M","I","N","A","T","E">>}

CodecTexts ==
    {h \o FUNCTION_CALL \o n \o m \o b \o t :
        h \in {<<>>, <<" ">>}, n \in CodecNames, m \in {<<>>, <<" ">>},
        b \in CodecBodies, t \in CodecTails}
    \cup {<<>>, <<"P","l","e","a","s","e"," ","p","r","o","v","i","d","e"," ",
                  "l","i","s","t","i","n","g"," ","I","D",".">>, FUNCTION_CALL, TERMINATE,
          <<"g","e","t","_","u","s","e","r","_","s","t","a","t","u","s","{",
            "\"","u","s","e","r","_","i","d","\"",":"," ","\"","5","2","\"",
            "}">>}

\* ledgers the retry operations leave (every count is 1 or 2)
CodecLedgers ==
    {<<>>,
     [k \in {<<"u","s","e","r","_","5","2">>, <<"l","i","s","t","i","n","g",
           "_","5","2">>} |-> IF k = <<"u","s","e","r","_","5","2">> THEN 1 ELSE 2],
     [k \in {<<"u","s","e","r","_","5","2">>, <<"l","i","s","t","i","n","g",
           "_","5","2">>} |-> IF k = <<"u","s","e","r","_","5","2">> THEN 2 ELSE 1]}

\* int(time.time()) of the browser at the call
CodecClocks ==
    {1700012345}

CodecInit ==
    /\ retry_counts \in CodecLedgers
    /\ user_context = NoContext
    /\ is_chat_active = TRUE
    /\ messages = <<>>
    /\ selected = NoDecision
    /\ call \in {[fe |-> "cli", message |-> t, now |-> 0,
                  counts |-> retry_counts] : t \in CodecTexts}
           \cup {[fe |-> "st", message |-> t, now |-> n,
                  counts |-> retry_counts] :
                    t \in CodecTexts, n \in CodecClocks}
    /\ reply = NoReply
    /\ sessions = NoSessions
    /\ attempts = <<>>
    /\ result = NoResult
    /\ loop = NoLoop
    /\ conversation_history = <<>>
    /\ is_initialized = FALSE
    /\ handler = "none"

\* CLI: FunctionExecutor runs execute_function_call(message)
execute ==
    /\ call.fe = "cli"
    /\ reply.branch = "none"
    /\ reply' = execute_function_call(retry_counts, user_context, call.message)
    /\ retry_counts' = reply'.counts
    /\ user_context' = reply'.context
    /\ UNCHANGED <<page, is_chat_active, messages, selected, call, sessions, attempts,
                   result, loop>>

\* browser: FunctionExecutor runs execute_function_call(message)
execute_st ==
    /\ call.fe = "st"
    /\ reply.branch = "none"
    /\ reply' = execute_function_call_st(retry_counts, user_context,
                                         call.message, call.now)
    /\ retry_counts' = reply'.counts
    /\ user_context' = reply'.context
    /\ UNCHANGED <<page, is_chat_active, messages, selected, call, sessions, attempts,
                   result, loop>>

CodecNext ==
    \/ execute
    \/ execute_st

CodecSpec == CodecInit /\ [][CodecNext]_vars

Executed == reply.branch # "none"

\* the reply read back as JSON
Parsed == json_loads(reply.reply)

\* the value of a key of the object read back, Missing when it has none
Field(key) == Slot(Parsed.val.items, key)

\* the call as the decoder reads it
CallMatch == re_search(call.message)

CallParams == json_loads(CallMatch.params_str)

\* parsed is the reply read back, match and params the call as decoded
AlwaysJsonObject(parsed, match, params) ==
    /\ reply.branch # "raised"
    /\ parsed.ok
    /\ parsed.val.kind = "dict"
    /\ Slot(parsed.val.items, <<"m","e","s","s","a","g","e">>).kind = "str"
    /\ reply.branch = "success" =>
            \/ Slot(parsed.val.items, <<"s","t","a","t","u","s">>).kind = "str"
            \/ Slot(parsed.val.items, <<"c","a","n","_","r","e","a","c","t","i","v","a","t","e">>) = Bool(TRUE)
    /\ (/\ HasShape(call.message)
        /\ params.ok
        /\ \/ /\ match.func_name = <<"g","e","t","_","u","s","e","r","_","s","t","a","t","u","s">>
              /\ Slot(params.val.items, <<"u","s","e","r","_","i","d">>).kind
                    \notin {"str", "missing"}
           \/ /\ match.func_name = <<"g","e","t","_","l","i","s","t","i","n","g","_","s","t","a","t","u","s">>
              /\ Slot(params.val.items, <<"l","i","s","t","i","n","g","_","i","d">>).kind
                    \notin {"str", "missing"})
        => /\ Slot(parsed.val.items, <<"s","t","a","t","u","s">>) = Str(<<"c","r","i","t","i","c","a","l","_","e","r","r","o","r">>)
           /\ Slot(parsed.val.items, <<"t","e","c","h","n","i","c","a","l","_","d","e","t","a","i","l","s">>).kind = "str"
           /\ retry_counts = call.counts

\* C4: execute_function_call always returns, and what it returns is the
\* JSON text of an object; a dispatch that returns gives the result of the
\* operation, and a dispatch that raises (get_user_status or
\* get_listing_status on an id that is no str) gives status critical_error
\* with a message and technical_details.
C4_AlwaysJsonObject ==
    Executed => AlwaysJsonObject(Parsed, CallMatch, CallParams)

\* get_user_status with the number 5 as user_id gave critical_error
C4_Witness ==
    /\ Executed
    /\ CallMatch.func_name = <<"g","e","t","_","u","s","e","r","_","s","t","a","t","u","s">>
    /\ CallParams.ok
    /\ Slot(CallParams.val.items, <<"u","s","e","r","_","i","d">>) = IntVal(<<"5">>)
    /\ Field(<<"s","t","a","t","u","s">>) = Str(<<"c","r","i","t","i","c","a","l","_","e","r","r","o","r">>)
    /\ Field(<<"t","e","c","h","n","i","c","a","l","_","d","e","t","a","i","l","s">>).kind = "str"

\* shaped says whether the text has the shape, match and params are the
\* call as decoded
DecodingOrder(shaped, match, params) ==
    /\ ~shaped => reply.branch = "invalid_format"
    /\ (shaped /\ ~params.ok)
            => reply.branch = "invalid_json"
    /\ (/\ shaped
        /\ params.ok
        /\ match.func_name \notin FunctionNames)
            => reply.branch = "unknown_function"
    /\ reply.branch \in {"invalid_format", "invalid_json", "unknown_function"}
            => /\ reply.called = <<>>
               /\ retry_counts = call.counts
               /\ Field(<<"s","t","a","t","u","s">>) = Str(<<"e","r","r","o","r">>)

\* C5: a text without the function-call shape gives the INVALID FORMAT
\* error; a text with the shape whose braces hold no valid JSON gives the
\* INVALID JSON error, whatever the identifier; a text with valid JSON and
\* an identifier that is none of the five gives the UNKNOWN FUNCTION error;
\* in the three cases no backend operation is called and the ledger is as
\* it was.
C5_DecodingOrder ==
    Executed =>
        DecodingOrder(HasShape(call.message), CallMatch, CallParams)

\* an unknown identifier in front of braces that hold no valid JSON
C5_Witness ==
    /\ Executed
    /\ HasShape(call.message)
    /\ CallMatch.func_name \notin FunctionNames
    /\ ~CallParams.ok
    /\ reply.branch = "invalid_json"
    /\ retry_counts = call.counts
    /\ retry_counts # <<>>

---------------------------------------------------------------------------
(* Sessions calling the retry operations on one ledger: BackendSpec        *)

\* backend calls of the process
MaxCalls == 4

\* sessions started in the process
MaxStarts == 3

BackendIds ==
    {<<"5">>, <<"5","2">>, <<"1","2">>}

\* initialize_chat with a ledger of its own for the session
initialize_chat_new_ledger(counts) ==
    [retry_counts |-> <<>>, conversation_history |-> <<>>,
     user_context |-> NoContext, is_chat_active |-> TRUE]

\* what initialize_chat of the browser and start_chat of the CLI leave: the
\* history of the session is emptied, retry_counts is not assigned
initialize_chat(counts) ==
    [retry_counts |-> counts, conversation_history |-> <<>>,
     user_context |-> NoContext, is_chat_active |-> TRUE]

RECURSIVE SumOver(_, _)
SumOver(f, S) ==
    IF S = {} THEN 0
    ELSE SumOver(f, S \ {CHOOSE k \in S : TRUE}) + f[CHOOSE k \in S : TRUE]

\* the backend calls made since the process started
TotalCalls == SumOver(attempts, DOMAIN attempts)

AttemptsOf(func_name, id) ==
    IF <<func_name, id>> \in DOMAIN attempts THEN attempts[<<func_name, id>>]
    ELSE 0

Counted(func_name, id) ==
    [k \in DOMAIN attempts \cup {<<func_name, id>>} |->
        IF k = <<func_name, id>> THEN AttemptsOf(func_name, id) + 1
        ELSE attempts[k]]

BackendInit ==
    /\ retry_counts = <<>>
    /\ user_context = NoContext
    /\ is_chat_active = TRUE
    /\ messages = <<>>
    /\ selected = NoDecision
    /\ call = NoCall
    /\ reply = NoReply
    /\ sessions = NoSessions
    /\ attempts = <<>>
    /\ result = NoResult
    /\ loop = NoLoop
    /\ conversation_history = <<>>
    /\ is_initialized = FALSE
    /\ handler = "none"

\* a session starts: start_chat, or initialize_chat at the first run and at
\* "Start New Chat"
new_session ==
    \E s \in Sessions :
        /\ SumOver([t \in Sessions |-> sessions[t].started], Sessions) < MaxStarts
        /\ retry_counts' = initialize_chat(retry_counts).retry_counts
        /\ user_context' = initialize_chat(retry_counts).user_context
        /\ is_chat_active' = initialize_chat(retry_counts).is_chat_active
        /\ messages' = initialize_chat(retry_counts).conversation_history
        /\ sessions' = [sessions EXCEPT ![s] =
                            [started |-> sessions[s].started + 1, calls |-> 0]]
        /\ UNCHANGED <<page, selected, call, reply, attempts, result, loop>>

\* the FunctionExecutor of a session calls get_user_status(user_id)
call_get_user_status ==
    \E s \in Sessions, user_id \in BackendIds :
        /\ sessions[s].started > 0
        /\ TotalCalls < MaxCalls
        /\ result' = [session |-> s, nth |-> sessions[s].calls + 1,
                      func_name |-> <<"g","e","t","_","u","s","e","r","_","s",
                                      "t","a","t","u","s">>, id |-> user_id,
                      out |-> get_user_status(retry_counts, Str(user_id))]
        /\ retry_counts' = result'.out.counts
        /\ attempts' = Counted(<<"g","e","t","_","u","s","e","r","_","s","t","a","t","u","s">>, user_id)
        /\ sessions' = [sessions EXCEPT ![s].calls = sessions[s].calls + 1]
        /\ UNCHANGED <<page, user_context, is_chat_active, messages, selected, call,
                       reply, loop>>

\* the FunctionExecutor of a session calls get_listing_status(listing_id)
call_get_listing_status ==
    \E s \in Sessions, listing_id \in BackendIds :
        /\ sessions[s].started > 0
        /\ TotalCalls < MaxCalls
        /\ result' = [session |-> s, nth |-> sessions[s].calls + 1,
                      func_name |-> <<"g","e","t","_","l","i","s","t","i","n",
                                      "g","_","s","t","a","t","u","s">>, id |-> listing_id,
                      out |-> get_listing_status(retry_counts, Str(listing_id))]
        /\ retry_counts' = result'.out.counts
        /\ attempts' = Counted(<<"g","e","t","_","l","i","s","t","i","n","g","_","s","t","a","t","u","s">>, listing_id)
        /\ sessions' = [sessions EXCEPT ![s].calls = sessions[s].calls + 1]
        /\ UNCHANGED <<page, user_context, is_chat_active, messages, selected, call,
                       reply, loop>>

BackendNext ==
    \/ new_session
    \/ call_get_user_status
    \/ call_get_listing_status

BackendSpec == BackendInit /\ [][BackendNext]_vars

\* a backend call has been made
Called == result.session # 0

\* the value of a key of the dict the last call returned
ResultField(key) == Slot(result.out.result.items, key)

\* the ledger key and the id field of the two retry operations
RetryKey(func_name, id) ==
    IF func_name = <<"g","e","t","_","u","s","e","r","_","s","t","a","t","u",
                     "s">> THEN <<"u","s","e","r","_">> \o id
    ELSE <<"l","i","s","t","i","n","g","_">> \o id

IdField(func_name) ==
    IF func_name = <<"g","e","t","_","u","s","e","r","_","s","t","a","t","u",
                     "s">> THEN <<"u","s","e","r","_","i","d">>
    ELSE <<"l","i","s","t","i","n","g","_","i","d">>

\* the count the ledger holds for a key, 0 when it holds none
LedgerCount(key) ==
    IF key \in DOMAIN retry_counts THEN retry_counts[key] ELSE 0

\* the last call returned the terminal status of its operation
TerminalStatus ==
    IF result.func_name = <<"g","e","t","_","u","s","e","r","_","s","t","a",
                            "t","u","s">>
    THEN /\ ResultField(<<"s","t","a","t","u","s">>) = Str(<<"o","n","_","h","o","l","d">>)
         /\ ResultField(<<"r","e","a","s","o","n","_","c","o","d","e">>) = Str(<<"M","A","X","_","R","E","T","R","I","E","S","_","E","X","C","E","E","D","E","D">>)
    ELSE /\ ResultField(<<"s","t","a","t","u","s">>) = Str(<<"e","r","r","o","r">>)
         /\ ResultField(<<"r","e","t","r","y","_","n","e","e","d","e","d">>) = Bool(FALSE)

\* the last call returned retrying with attempt n
Retrying(n) ==
    /\ ResultField(<<"s","t","a","t","u","s">>) = Str(<<"r","e","t","r","y","i","n","g">>)
    /\ ResultField(<<"m","e","s","s","a","g","e">>).kind = "str"
    /\ contains(<<"(","a","t","t","e","m","p","t"," ">> \o <<DigitSeq[n + 1]>> \o <<"/","3",")">>,
                ResultField(<<"m","e","s","s","a","g","e">>).text)
    /\ ResultField(<<"r","e","t","r","y","_","n","e","e","d","e","d">>) = Bool(TRUE)
    /\ ResultField(<<"a","u","t","o","_","r","e","t","r","y">>) = Bool(TRUE)
    /\ ResultField(IdField(result.func_name)) = Str(result.id)

\* C2: for get_user_status and get_listing_status and an id that begins
\* with "5", the calls on the id, counted from a ledger without the key,
\* return retrying with attempt 1, then retrying with attempt 2, each with
\* retry_needed and auto_retry true, the same id and the ledger holding that
\* count; the third call returns the terminal status and leaves the ledger
\* without the key; the fourth is a first call again.
C2_RetryCycle ==
    (Called /\ result.id[1] = "5") =>
        LET n == AttemptsOf(result.func_name, result.id)
            key == RetryKey(result.func_name, result.id)
        IN  /\ result.out.exc = <<>>
            /\ n % 3 = 1 => Retrying(1) /\ LedgerCount(key) = 1
            /\ n % 3 = 2 => Retrying(2) /\ LedgerCount(key) = 2
            /\ n % 3 = 0 => TerminalStatus /\ key \notin DOMAIN retry_counts

\* the fourth call on an id, after the terminal status of the third, is
\* attempt 1 again
C2_Witness ==
    /\ Called
    /\ result.id[1] = "5"
    /\ AttemptsOf(result.func_name, result.id) = 4
    /\ Retrying(1)
    /\ LedgerCount(RetryKey(result.func_name, result.id)) = 1

\* C10: the ledger holds, for every retry operation and id that begins with
\* "5", the calls that all sessions together made on it since the process
\* started, counted modulo three, whatever sessions were started in
\* between; it holds nothing else.
C10_LedgerSharedBySessions ==
    /\ \A f \in {<<"g","e","t","_","u","s","e","r","_","s","t","a","t","u","s">>, <<"g","e","t","_","l","i","s","t","i","n","g","_","s","t","a","t","u","s">>}, id \in BackendIds :
            id[1] = "5" => LedgerCount(RetryKey(f, id)) = AttemptsOf(f, id) % 3
    /\ \A key \in DOMAIN retry_counts :
            \E f \in {<<"g","e","t","_","u","s","e","r","_","s","t","a","t",
                        "u","s">>, <<"g","e","t","_","l","i","s","t","i","n",
                                     "g","_","s","t","a","t","u","s">>}, id \in BackendIds :
                id[1] = "5" /\ key = RetryKey(f, id)

\* session 1 made two calls on an id, then session 2 started and its first
\* call, on the same id, returned the terminal status
C10_Witness ==
    /\ Called
    /\ sessions[1].started = 1
    /\ sessions[2].started = 1
    /\ sessions[1].calls = 2
    /\ result.session = 2
    /\ result.nth = 1
    /\ AttemptsOf(result.func_name, result.id) = 3
    /\ TerminalStatus

\* C12: the ledger entry of a key is created with count 1 by the first
\* attempt on the key, grows by one with each later attempt while the new
\* count is below the ceiling of 3, and is deleted by the attempt that
\* reaches the ceiling; an attempt changes no other entry, and nothing but
\* an attempt on a key changes the ledger.  No call on an id that begins
\* with "5" succeeds, so the ceiling is the only deletion that occurs.
C12_LedgerEntryLifecycle ==
    /\ [](\A k \in DOMAIN retry_counts : retry_counts[k] \in 1..(MAX_RETRIES - 1))
    /\ [][IF result' # result /\ result'.id[1] = "5"
          THEN LET key == RetryKey(result'.func_name, result'.id)
               IN  /\ key \notin DOMAIN retry_counts =>
                        key \in DOMAIN retry_counts' /\ retry_counts'[key] = 1
                   /\ (key \in DOMAIN retry_counts /\ retry_counts[key] + 1 < 3) =>
                        /\ key \in DOMAIN retry_counts'
                        /\ retry_counts'[key] = retry_counts[key] + 1
                   /\ (key \in DOMAIN retry_counts /\ retry_counts[key] + 1 >= 3) =>
                        key \notin DOMAIN retry_counts'
                   /\ DOMAIN retry_counts' \subseteq DOMAIN retry_counts \cup {key}
                   /\ \A k \in DOMAIN retry_counts \ {key} :
                        k \in DOMAIN retry_counts' /\ retry_counts'[k] = retry_counts[k]
          ELSE retry_counts' = retry_counts]_vars

\* the third attempt on a key has deleted its entry while the entry of
\* another key, attempted once, is kept
C12_Witness ==
    /\ Called
    /\ result.id[1] = "5"
    /\ AttemptsOf(result.func_name, result.id) = 3
    /\ RetryKey(result.func_name, result.id) \notin DOMAIN retry_counts
    /\ \E k \in DOMAIN retry_counts : retry_counts[k] = 1

---------------------------------------------------------------------------
(* Conversation loop of a session: LoopSpec.  The loop that asks the       *)
(* active role for its message, appends it and invokes the Turn Router is  *)
(* the group chat manager of the agent library; it is modelled after       *)
(* section 4.4 of the specification, with the round budget, the router,    *)
(* the FunctionExecutor and the codec of the source.                       *)

\* max_round of the group chat
max_round_off_by_one == 25 + 1

max_round == 25

\* what the assistant says: a function call, a question, a last word
SIAReplies ==
    {<<"F","U","N","C","T","I","O","N","_","C","A","L","L",":","g","e","t",
       "_","l","i","s","t","i","n","g","_","s","t","a","t","u","s","{","\"",
       "l","i","s","t","i","n","g","_","i","d","\"",":"," ","\"","5","2","\"",
       "}">>,
     <<"P","l","e","a","s","e"," ","p","r","o","v","i","d","e"," ","y","o",
       "u","r"," ","l","i","s","t","i","n","g"," ","I","D",".">>,
     <<"Y","o","u","r"," ","l","i","s","t","i","n","g"," ","i","s"," ","a",
       "c","t","i","v","e","."," ","T","E","R","M","I","N","A","T","E">>}

\* the replies of the assistant that ask the human
SIAQuestions ==
    {<<"P","l","e","a","s","e"," ","p","r","o","v","i","d","e"," ","y","o",
       "u","r"," ","l","i","s","t","i","n","g"," ","I","D",".">>}

\* questions the assistant asks in a session
MaxAsks == 2

\* what the human says
UserReplies ==
    {<<"M","y"," ","l","i","s","t","i","n","g"," ","I","D"," ","i","s"," ",
       "5","2">>}

\* the questions of the assistant in the session
Asked(msgs) ==
    Cardinality({i \in 1..Len(msgs) :
                    msgs[i].name = Str(SIA) /\ msgs[i].content.text \in SIAQuestions})

\* the speaker_selection_func of the front end
route(fe, msgs) ==
    IF fe = "cli" THEN speaker_selection_func(msgs)
    ELSE speaker_selection_func_st(msgs)

\* the positions of the messages of SIA
SIAMessages(msgs) ==
    {i \in 1..Len(msgs) : msgs[i].name = Str(SIA)}

\* the content of the last message of SIA, "" when it has none
LastSIAContent(msgs) ==
    IF SIAMessages(msgs) = {} THEN Str(<<>>)
    ELSE dict_get(msgs[Max(SIAMessages(msgs))].content, Str(<<>>))

\* generate_reply with a detection that looks for the prefix alone
generate_reply_on_prefix(fe, counts, context, msgs, now) ==
    IF SIAMessages(msgs) = {} THEN Codec(<<>>, counts, context, "none", <<>>)
    ELSE IF ~contains(FUNCTION_CALL, LastSIAContent(msgs).text)
    THEN Codec(<<>>, counts, context, "none", <<>>)
    ELSE IF fe = "cli"
    THEN execute_function_call(counts, context, LastSIAContent(msgs).text)
    ELSE execute_function_call_st(counts, context, LastSIAContent(msgs).text, now)

\* FunctionExecutorAgent.generate_reply: the result of the function call in
\* the last message of SIA; branch "none" stands for the reply None
generate_reply(fe, counts, context, msgs, now) ==
    IF SIAMessages(msgs) = {} THEN Codec(<<>>, counts, context, "none", <<>>)
    ELSE IF ~re_search(LastSIAContent(msgs).text).matched
    THEN Codec(<<>>, counts, context, "none", <<>>)
    ELSE IF fe = "cli"
    THEN execute_function_call(counts, context, LastSIAContent(msgs).text)
    ELSE execute_function_call_st(counts, context, LastSIAContent(msgs).text, now)

\* the loop after a round: the message is appended and the router has given
\* decision; the session ends on the marker and when the budget is used
next_round(l, decision) ==
    IF decision.next = "None"
    THEN [l EXCEPT !.state = "Terminated", !.round = l.round + 1,
                   !.active = "", !.cause = "marker"]
    ELSE IF decision.next = "AttributeError"
    THEN [l EXCEPT !.state = "Terminated", !.round = l.round + 1,
                   !.active = "", !.cause = "error"]
    ELSE IF l.round + 1 >= max_round
    THEN [l EXCEPT !.state = "Terminated", !.round = l.round + 1,
                   !.active = "", !.cause = "budget"]
    ELSE [l EXCEPT !.round = l.round + 1, !.active = decision.next]

\* the loop when the role that was asked gives no reply
no_reply(l) ==
    [l EXCEPT !.state = "Terminated", !.active = "", !.cause = "no_reply"]

Selected(fe, decision) ==
    [fe |-> fe, next |-> decision.next, rule |-> decision.rule]

LoopInit ==
    /\ retry_counts = <<>>
    /\ user_context = NoContext
    /\ is_chat_active = TRUE
    /\ messages = <<>>
    /\ selected = NoDecision
    /\ call = NoCall
    /\ reply = NoReply
    /\ sessions = NoSessions
    /\ attempts = <<>>
    /\ result = NoResult
    /\ loop = NoLoop
    /\ conversation_history = <<>>
    /\ is_initialized = FALSE
    /\ handler = "none"

\* a browser router that clears is_chat_active on every message
chat_active_after_clears(fe, active, decision) ==
    IF fe = "st" THEN FALSE ELSE active

\* the browser router that leaves is_chat_active as it is on the marker
chat_active_after_keeps(fe, active, decision) ==
    active

\* is_chat_active after the router gave decision: the browser router
\* clears it when it finds the marker
chat_active_after(fe, active, decision) ==
    IF fe = "st" /\ decision.rule = 2 THEN FALSE ELSE active

\* a round that keeps only the latest message of the session
round_of_keeps_latest(fe, msgs) ==
    /\ messages' = <<msgs[Len(msgs)]>>
    /\ selected' = Selected(fe, route(fe, msgs))
    /\ loop' = next_round(loop, route(fe, msgs))
    /\ is_chat_active' = chat_active_after(fe, is_chat_active, route(fe, msgs))

\* a round: msgs is the session with the new message appended; the router
\* is invoked on it
round_of(fe, msgs) ==
    /\ messages' = msgs
    /\ selected' = Selected(fe, route(fe, msgs))
    /\ loop' = next_round(loop, route(fe, msgs))
    /\ is_chat_active' = chat_active_after(fe, is_chat_active, route(fe, msgs))

\* start_chat of the CLI (fe = "cli") and initialize_chat of the browser
\* (fe = "st"): the opening utterance of User seeds the session and the
\* router gives the first move
initiate_chat ==
    \E fe \in {"cli", "st"} :
        /\ loop.state = "Idle"
        /\ messages' = <<InitialMessage>>
        /\ user_context' = initialize_chat(retry_counts).user_context
        /\ is_chat_active' = initialize_chat(retry_counts).is_chat_active
        /\ retry_counts' = initialize_chat(retry_counts).retry_counts
        /\ selected' = Selected(fe, route(fe, <<InitialMessage>>))
        /\ loop' = [fe |-> fe, state |-> "Running", round |-> 0,
                    active |-> route(fe, <<InitialMessage>>).next,
                    cause |-> "none"]
        /\ UNCHANGED <<page, call, reply, sessions, attempts, result>>

\* a round of SIA: the assistant produces its message
SIA_round ==
    \E content \in SIAReplies :
        /\ loop.state = "Running"
        /\ loop.active = "SIA"
        /\ content \in SIAQuestions => Asked(messages) < MaxAsks
        /\ round_of(loop.fe, Append(messages, Message(Str(SIA), Str(content))))
        /\ UNCHANGED <<page, retry_counts, user_context, call, reply, sessions,
                       attempts, result>>

\* a round of User: the human produces a message
User_round ==
    \E content \in UserReplies :
        /\ loop.state = "Running"
        /\ loop.active = "User"
        /\ round_of(loop.fe, Append(messages, Message(Str(User), Str(content))))
        /\ UNCHANGED <<page, retry_counts, user_context, call, reply, sessions,
                       attempts, result>>

\* the round of FunctionExecutor once generate_reply gave made: its text
\* is the message of the round, and no text ends the loop
executor_round(made) ==
    /\ reply' = made
    /\ retry_counts' = made.counts
    /\ user_context' = made.context
    /\ IF made.branch = "none"
       THEN /\ loop' = no_reply(loop)
            /\ UNCHANGED <<messages, selected, is_chat_active>>
       ELSE round_of(loop.fe, Append(messages,
                        Message(Str(FunctionExecutor), Str(made.reply))))

\* a round of FunctionExecutor: generate_reply runs the function call
FunctionExecutor_round ==
    \E now \in CodecClocks :
        /\ loop.state = "Running"
        /\ loop.active = "FunctionExecutor"
        /\ executor_round(generate_reply(loop.fe, retry_counts, user_context,
                                         messages, now))
        /\ UNCHANGED <<page, call, sessions, attempts, result>>

LoopNext ==
    \/ initiate_chat
    \/ SIA_round
    \/ User_round
    \/ FunctionExecutor_round

LoopSpec == LoopInit /\ [][LoopNext]_vars

\* a message of the session ends, right-trimmed, with the marker
MarkerSeen ==
    \E i \in 1..Len(messages) :
        /\ messages[i].content.kind = "str"
        /\ MarkerAtEnd(messages[i].content.text)

---------------------------------------------------------------------------
(* OpsSpec: the five backend operations called directly, in both front    *)
(* ends, on ids of every branch and from every ledger the calls lead to.  *)

\* the ticket id create_support_ticket allocates: a literal in the CLI
\* front end, "TICKET" and the last five digits of int(time.time()) in the
\* browser front end
ticket_id(fe, now) ==
    IF fe = "cli" THEN <<"T","I","C","K","E","T","1","2","3","4","5">>
    ELSE <<"T","I","C","K","E","T">> \o LastChars(int_str(now), 5)

\* ids of the status operations that do not begin with "5": empty, the
\* default, and one of every branch
OpsIds ==
    {<<>>, <<"d","e","f","a","u","l","t">>, <<"1">>, <<"1","2","3">>,
     <<"1","5">>, <<"2","3","4">>, <<"2","5">>, <<"9","9","9">>, <<"7">>,
     <<"1","2","3","1">>, <<"4","5","6","2">>, <<"2","1">>, <<"1","3">>,
     <<"1","4">>, <<"a","b","c","1">>, <<"a","b","c","2">>,
     <<"a","b","c","9">>}

OpsUserIds == OpsIds \cup {<<"5","2">>}

OpsListingIds == OpsIds \cup {<<"5">>, <<"5","1">>, <<"5","2">>}

OpsRequestIds == OpsIds \cup {<<"5">>, <<"5","1">>, <<"5","2">>}

OpsBlockReasons == {<<>>, <<"s","e","l","l","e","r","_","s","t","a","t","e",
                            "_","c","h","a","n","g","e">>}

OpsTicketUsers == {<<>>, <<"1","2","3","4","5">>}

OpsTicketListings == {<<"N","/","A">>, <<"4","5","6","2">>}

OpsTicketReasons == {<<"R","e","a","c","t","i","v","a","t","i","o","n"," ",
                       "r","e","q","u","e","s","t","e","d">>}

\* readings of int(time.time()): two that differ in the last five digits
\* and one that shares them with the first
OpsClocks == {1700012345, 1700012346, 1700112345}

FrontEnds == {"cli", "st"}

\* the operation of a name applied to its arguments
call_function(fe, counts, func_name, args, now) ==
    IF func_name = <<"g","e","t","_","u","s","e","r","_","s","t","a","t","u",
                     "s">>
    THEN get_user_status(counts, args[1])
    ELSE IF func_name = <<"g","e","t","_","l","i","s","t","i","n","g","_","s",
                          "t","a","t","u","s">>
    THEN get_listing_status(counts, args[1])
    ELSE IF func_name = <<"c","a","n","_","r","e","a","c","t","i","v","a","t",
                          "e","_","l","i","s","t","i","n","g">>
    THEN can_reactivate_listing(counts, args[1])
    ELSE IF func_name = <<"c","r","e","a","t","e","_","s","u","p","p","o","r",
                          "t","_","t","i","c","k","e","t">>
    THEN create_support_ticket(counts, ticket_id(fe, now), args[1], args[2],
                               args[3])
    ELSE get_brand_approval_status(counts, args[1])

OpsInit ==
    /\ retry_counts = <<>>
    /\ user_context = NoContext
    /\ is_chat_active = TRUE
    /\ messages = <<>>
    /\ selected = NoDecision
    /\ call = NoCall
    /\ reply = NoReply
    /\ sessions = NoSessions
    /\ attempts = <<>>
    /\ result = NoResult
    /\ loop = NoLoop
    /\ conversation_history = <<>>
    /\ is_initialized = FALSE
    /\ handler = "none"

\* what goes into a call, with the ledger it finds
Invocation(fe, func_name, args, now) ==
    [fe |-> fe, func_name |-> func_name, args |-> args, now |-> now,
     counts |-> retry_counts]

\* what comes out of the call c
Returned(c) ==
    [func_name |-> c.func_name, id |-> c.args[1].text,
     out |-> call_function(c.fe, c.counts, c.func_name, c.args, c.now)]

op_get_user_status ==
    \E fe \in FrontEnds, user_id \in OpsUserIds :
        /\ call' = Invocation(fe, <<"g","e","t","_","u","s","e","r","_","s",
                                    "t","a","t","u","s">>, <<Str(user_id)>>, 0)
        /\ result' = Returned(call')
        /\ retry_counts' = result'.out.counts
        /\ UNCHANGED <<page, user_context, is_chat_active, messages, selected,
                       reply, sessions, attempts, loop>>

op_get_listing_status ==
    \E fe \in FrontEnds, listing_id \in OpsListingIds :
        /\ call' = Invocation(fe, <<"g","e","t","_","l","i","s","t","i","n",
                                    "g","_","s","t","a","t","u","s">>,
                              <<Str(listing_id)>>, 0)
        /\ result' = Returned(call')
        /\ retry_counts' = result'.out.counts
        /\ UNCHANGED <<page, user_context, is_chat_active, messages, selected,
                       reply, sessions, attempts, loop>>

op_can_reactivate_listing ==
    \E fe \in FrontEnds, block_reason \in OpsBlockReasons :
        /\ call' = Invocation(fe, <<"c","a","n","_","r","e","a","c","t","i",
                                    "v","a","t","e","_","l","i","s","t","i",
                                    "n","g">>, <<Str(block_reason)>>, 0)
        /\ result' = Returned(call')
        /\ retry_counts' = result'.out.counts
        /\ UNCHANGED <<page, user_context, is_chat_active, messages, selected,
                       reply, sessions, attempts, loop>>

op_create_support_ticket ==
    \E fe \in FrontEnds, user_id \in OpsTicketUsers,
       listing_id \in OpsTicketListings, reason \in OpsTicketReasons,
       now \in OpsClocks :
        /\ call' = Invocation(fe, <<"c","r","e","a","t","e","_","s","u","p",
                                    "p","o","r","t","_","t","i","c","k","e",
                                    "t">>,
                              <<Str(user_id), Str(listing_id), Str(reason)>>,
                              now)
        /\ result' = Returned(call')
        /\ retry_counts' = result'.out.counts
        /\ UNCHANGED <<page, user_context, is_chat_active, messages, selected,
                       reply, sessions, attempts, loop>>

op_get_brand_approval_status ==
    \E fe \in FrontEnds, request_id \in OpsRequestIds :
        /\ call' = Invocation(fe, <<"g","e","t","_","b","r","a","n","d","_",
                                    "a","p","p","r","o","v","a","l","_","s",
                                    "t","a","t","u","s">>,
                              <<Str(request_id)>>, 0)
        /\ result' = Returned(call')
        /\ retry_counts' = result'.out.counts
        /\ UNCHANGED <<page, user_context, is_chat_active, messages, selected,
                       reply, sessions, attempts, loop>>

OpsNext ==
    \/ op_get_user_status
    \/ op_get_listing_status
    \/ op_can_reactivate_listing
    \/ op_create_support_ticket
    \/ op_get_brand_approval_status

OpsSpec == OpsInit /\ [][OpsNext]_vars

\* an operation of this name was the last call
OpCalled(func_name) ==
    call.fe # "none" /\ call.func_name = func_name

\* the id the last call was given
OpId == call.args[1].text

\* the count the ledger held for a key when the last call began
CountBefore(key) ==
    IF key \in DOMAIN call.counts THEN call.counts[key] ELSE 0

\* the last call left every ledger entry but that of key as it found it
OthersKept(key) ==
    /\ DOMAIN retry_counts \ {key} = DOMAIN call.counts \ {key}
    /\ \A k \in DOMAIN retry_counts \ {key} : retry_counts[k] = call.counts[k]

\* the last call took the retry path on key: it counted an attempt, and
\* returned retrying below the ceiling and the terminal status at it
OnRetryPath(key) ==
    /\ OthersKept(key)
    /\ IF CountBefore(key) + 1 < 3
       THEN Retrying(CountBefore(key) + 1) /\ LedgerCount(key) = CountBefore(key) + 1
       ELSE TerminalStatus /\ key \notin DOMAIN retry_counts

\* the status of the result of the last call is this text
StatusIs(status) ==
    ResultField(<<"s","t","a","t","u","s">>) = Str(status)

\* C16: user-status of an id (a str) that begins with "5" takes the retry
\* path; of any other id it returns active when the id begins with "1",
\* onboarding when it begins with "2" and on_hold otherwise (the empty id
\* and the id "default" are among these) and leaves the ledger alone; the
\* user_id of the result is the id it was given.  Both front ends.
C16_UserStatusByPrefix ==
    OpCalled(<<"g","e","t","_","u","s","e","r","_","s","t","a","t","u","s">>) =>
        /\ result.out.exc = <<>>
        /\ ResultField(<<"u","s","e","r","_","i","d">>) = Str(OpId)
        /\ IF Len(OpId) > 0 /\ OpId[1] = "5"
           THEN OnRetryPath(<<"u","s","e","r","_">> \o OpId)
           ELSE /\ retry_counts = call.counts
                /\ ResultField(<<"r","e","t","r","y","_","n","e","e","d","e","d">>) = Missing
                /\ ResultField(<<"r","e","a","s","o","n","_","c","o","d","e">>) = Missing
                /\ IF Len(OpId) > 0 /\ OpId[1] = "1" THEN StatusIs(<<"a","c","t","i","v","e">>)
                   ELSE IF Len(OpId) > 0 /\ OpId[1] = "2"
                   THEN StatusIs(<<"o","n","b","o","a","r","d","i","n","g">>)
                   ELSE StatusIs(<<"o","n","_","h","o","l","d">>)

\* user-status of the empty id has returned on_hold with the empty id, and
\* the ledger it found held an entry
C16_Witness ==
    /\ OpCalled(<<"g","e","t","_","u","s","e","r","_","s","t","a","t","u","s">>)
    /\ OpId = <<>>
    /\ StatusIs(<<"o","n","_","h","o","l","d">>)
    /\ ResultField(<<"u","s","e","r","_","i","d">>) = Str(<<>>)
    /\ call.counts # <<>>

\* C17: listing-status of an id (a str) that begins with "5" takes the
\* retry path whatever its last character is; of any other id the status
\* follows the last character: "1" inactive, "2" blocked with block_reason
\* seller_state_change, "3" archived, "4" rfa, and active for every other
\* last character and for the empty id; the ledger is left alone and the
\* listing_id of the result is the id it was given.  Both front ends.
C17_ListingStatusByLastChar ==
    OpCalled(<<"g","e","t","_","l","i","s","t","i","n","g","_","s","t","a",
               "t","u","s">>) =>
        /\ result.out.exc = <<>>
        /\ ResultField(<<"l","i","s","t","i","n","g","_","i","d">>) = Str(OpId)
        /\ IF Len(OpId) > 0 /\ OpId[1] = "5"
           THEN OnRetryPath(<<"l","i","s","t","i","n","g","_">> \o OpId)
           ELSE /\ retry_counts = call.counts
                /\ ResultField(<<"r","e","t","r","y","_","n","e","e","d","e","d">>) = Missing
                /\ IF OpId = <<>> THEN StatusIs(<<"a","c","t","i","v","e">>)
                   ELSE IF OpId[Len(OpId)] = "1" THEN StatusIs(<<"i","n","a",
                         "c","t","i","v","e">>)
                   ELSE IF OpId[Len(OpId)] = "2"
                   THEN /\ StatusIs(<<"b","l","o","c","k","e","d">>)
                        /\ ResultField(<<"b","l","o","c","k","_","r","e","a","s","o","n">>) = Str(<<"s","e","l","l","e","r","_","s","t","a","t","e","_","c","h","a","n","g","e">>)
                   ELSE IF OpId[Len(OpId)] = "3" THEN StatusIs(<<"a","r","c",
                         "h","i","v","e","d">>)
                   ELSE IF OpId[Len(OpId)] = "4" THEN StatusIs(<<"r","f","a">>)
                   ELSE StatusIs(<<"a","c","t","i","v","e">>)
                /\ OpId = <<>> \/ OpId[Len(OpId)] # "2" =>
                        ResultField(<<"b","l","o","c","k","_","r","e","a","s",
                                      "o","n">>) = Missing

\* listing-status of "51", an id that begins with "5" and ends with "1",
\* has returned retrying and not inactive
C17_Witness ==
    /\ OpCalled(<<"g","e","t","_","l","i","s","t","i","n","g","_","s","t","a","t","u","s">>)
    /\ OpId = <<"5","1">>
    /\ StatusIs(<<"r","e","t","r","y","i","n","g">>)
    /\ LedgerCount(<<"l","i","s","t","i","n","g","_","5","1">>) = 2

\* C18: brand-approval-status of an id (a str) depends on the last
\* character alone: "1" approved with no timeline_hours, "2" in_progress
\* with timeline_hours 48, anything else and the empty id disapproved with
\* timeline_hours 80; an id that begins with "5" takes no retry path, and
\* the ledger is never changed.  Both front ends.
C18_BrandApprovalByLastChar ==
    OpCalled(<<"g","e","t","_","b","r","a","n","d","_","a","p","p","r","o",
               "v","a","l","_","s","t","a","t","u","s">>) =>
        /\ result.out.exc = <<>>
        /\ retry_counts = call.counts
        /\ ResultField(<<"r","e","t","r","y","_","n","e","e","d","e","d">>) = Missing
        /\ IF OpId # <<>> /\ OpId[Len(OpId)] = "1"
           THEN /\ StatusIs(<<"a","p","p","r","o","v","e","d">>)
                /\ ResultField(<<"t","i","m","e","l","i","n","e","_","h","o","u","r","s">>) = Missing
           ELSE IF OpId # <<>> /\ OpId[Len(OpId)] = "2"
           THEN /\ StatusIs(<<"i","n","_","p","r","o","g","r","e","s","s">>)
                /\ ResultField(<<"t","i","m","e","l","i","n","e","_","h","o","u","r","s">>) = IntVal(<<"4","8">>)
           ELSE /\ StatusIs(<<"d","i","s","a","p","p","r","o","v","e","d">>)
                /\ ResultField(<<"t","i","m","e","l","i","n","e","_","h","o","u","r","s">>) = IntVal(<<"8","0">>)

\* brand-approval-status of "52" has returned in_progress from a ledger
\* that holds an attempt of listing-status on the same id
C18_Witness ==
    /\ OpCalled(<<"g","e","t","_","b","r","a","n","d","_","a","p","p","r","o","v","a","l","_","s","t","a","t","u","s">>)
    /\ OpId = <<"5","2">>
    /\ StatusIs(<<"i","n","_","p","r","o","g","r","e","s","s">>)
    /\ LedgerCount(<<"l","i","s","t","i","n","g","_","5","2">>) = 1

\* C19: what the last call returned and the ledger it left are what every
\* call of the same operation in the same front end with the same
\* arguments from the same ledger gives, whatever the clock reads
C19_Deterministic ==
    call.fe # "none" =>
        \A now \in OpsClocks :
            call_function(call.fe, call.counts, call.func_name, call.args,
                          now) = result.out

---------------------------------------------------------------------------
(* The rule set of the assistant: the system_message of SIA read as a     *)
(* table from the history to the text the assistant writes.  Where the    *)
(* rule set names a text the text is the one it names ("[message from     *)
(* response]" is the message of the result); where it names none, the     *)
(* assistant may write any of several texts.                              *)

\* the questions of the assistant that the rule set leaves to it
AskTopic ==
    <<"D","o"," ","y","o","u"," ","n","e","e","d"," ","h","e","l","p"," ","w",
      "i","t","h"," ","a"," ","l","i","s","t","i","n","g"," ","o","r"," ","w",
      "i","t","h"," ","b","r","a","n","d"," ","a","p","p","r","o","v","a","l",
      "?">>

AskUserId == <<"P","l","e","a","s","e"," ","p","r","o","v","i","d","e"," ",
               "y","o","u","r"," ","u","s","e","r"," ","I","D",".">>

AskRequestId == <<"P","l","e","a","s","e"," ","p","r","o","v","i","d","e"," ",
                  "y","o","u","r"," ","b","r","a","n","d"," ","r","e","q","u",
                  "e","s","t"," ","I","D",".">>

\* "Please provide listing ID." closes the texts that ask for the listing
AskListingId == <<"P","l","e","a","s","e"," ","p","r","o","v","i","d","e"," ",
                  "l","i","s","t","i","n","g"," ","I","D",".">>

\* FUNCTION_CALL:name{"key": "value"}
FunctionCall(func_name, key, value) ==
    FUNCTION_CALL \o func_name \o <<"{","\"">> \o key
    \o <<"\"",":"," ","\"">> \o value \o <<"\"","}">>

\* FUNCTION_CALL:create_support_ticket{"user_id": .., "listing_id": ..,
\* "reason": ..}
TicketCall(user_id, listing_id, reason) ==
    FUNCTION_CALL \o <<"c","r","e","a","t","e","_","s","u","p","p","o","r",
                       "t","_","t","i","c","k","e","t">>
    \o <<"{","\"","u","s","e","r","_","i","d","\"",":"," ","\"">> \o user_id
    \o <<"\"",","," ","\"","l","i","s","t","i","n","g","_","i","d","\"",":",
         " ","\"">> \o listing_id
    \o <<"\"",","," ","\"","r","e","a","s","o","n","\"",":"," ","\"">> \o reason \o <<"\"","}">>

\* the text of a field of a result, empty when the result has no such text
TextOf(slot) == IF slot.kind = "missing" THEN <<>> ELSE slot.text

\* the positions of the calls of get_user_status in the session
UserStatusCalls(msgs) ==
    {i \in SIAMessages(msgs) :
        /\ re_search(msgs[i].content.text).matched
        /\ re_search(msgs[i].content.text).func_name = <<"g","e","t","_","u","s","e","r","_","s","t","a","t","u","s">>}

\* $user_id: the user id of the session, empty while none was given
SessionUserId(msgs) ==
    IF UserStatusCalls(msgs) = {} THEN <<>>
    ELSE TextOf(Slot(json_loads(re_search(
            msgs[Max(UserStatusCalls(msgs))].content.text).params_str).val.items,
            <<"u","s","e","r","_","i","d">>))

\* a rule set that ends the conversation after every user status that is
\* not retried
after_user_status_ends(res) ==
    IF /\ Slot(res, <<"s","t","a","t","u","s">>) = Str(<<"r","e","t","r","y","i","n","g">>)
       /\ Slot(res, <<"a","u","t","o","_","r","e","t","r","y">>) = Bool(TRUE)
    THEN {FunctionCall(<<"g","e","t","_","u","s","e","r","_","s","t","a","t",
                         "u","s">>, <<"u","s","e","r","_","i","d">>,
                       TextOf(Slot(res, <<"u","s","e","r","_","i","d">>)))}
    ELSE {TextOf(Slot(res, <<"m","e","s","s","a","g","e">>)) \o <<" ">> \o TERMINATE}

\* rule 1, after user status response
after_user_status(res) ==
    IF /\ Slot(res, <<"s","t","a","t","u","s">>) = Str(<<"r","e","t","r","y","i","n","g">>)
       /\ Slot(res, <<"a","u","t","o","_","r","e","t","r","y">>) = Bool(TRUE)
    THEN {FunctionCall(<<"g","e","t","_","u","s","e","r","_","s","t","a","t",
                         "u","s">>, <<"u","s","e","r","_","i","d">>,
                       TextOf(Slot(res, <<"u","s","e","r","_","i","d">>)))}
    ELSE IF Slot(res, <<"s","t","a","t","u","s">>) = Str(<<"o","n","b","o",
          "a","r","d","i","n","g">>)
    THEN {TextOf(Slot(res, <<"m","e","s","s","a","g","e">>))
          \o <<" ","T","E","R","M","I","N","A","T","I","N","G"," ","c","h",
               "a","t"," ","n","o","w","."," ","T","E","R","M","I","N","A",
               "T","E">>}
    ELSE {TextOf(Slot(res, <<"m","e","s","s","a","g","e">>)) \o <<" ">> \o AskListingId}

\* rule 1, after listing status response; a status the rule set does not
\* name ends the conversation (rule 4)
after_listing_status(res, msgs) ==
    IF /\ Slot(res, <<"s","t","a","t","u","s">>) = Str(<<"r","e","t","r","y","i","n","g">>)
       /\ Slot(res, <<"a","u","t","o","_","r","e","t","r","y">>) = Bool(TRUE)
    THEN {FunctionCall(<<"g","e","t","_","l","i","s","t","i","n","g","_","s",
                         "t","a","t","u","s">>, <<"l","i","s","t","i","n","g",
          "_","i","d">>,
                       TextOf(Slot(res, <<"l","i","s","t","i","n","g","_","i",
                                          "d">>)))}
    ELSE IF Slot(res, <<"s","t","a","t","u","s">>) \in {Str(<<"a","c","t","i",
          "v","e">>), Str(<<"i","n","a","c","t","i","v","e">>)}
    THEN {TextOf(Slot(res, <<"m","e","s","s","a","g","e">>))
          \o <<" ","I","n","f","o","r","m"," ","t","h","e"," ","u","s","e",
               "r"," ","t","h","a","t"," ","t","h","e","i","r"," ","l","i",
               "s","t","i","n","g"," ","i","s"," ","a","c","t","i","v","e",
               "/","i","n","a","c","t","i","v","e","."," ","T","E","R","M",
               "I","N","A","T","E">>}
    ELSE IF Slot(res, <<"s","t","a","t","u","s">>) = Str(<<"b","l","o","c",
          "k","e","d">>)
    THEN {TicketCall(SessionUserId(msgs), TextOf(Slot(res, <<"l","i","s","t",
          "i","n","g","_","i","d">>)),
                     <<"R","e","a","c","t","i","v","a","t","i","o","n"," ",
                       "r","e","q","u","e","s","t","e","d">>)}
    ELSE IF Slot(res, <<"s","t","a","t","u","s">>) = Str(<<"a","r","c","h",
          "i","v","e","d">>)
    THEN {TextOf(Slot(res, <<"m","e","s","s","a","g","e">>))
          \o <<" ","T","h","i","s"," ","l","i","s","t","i","n","g"," ","i",
               "s"," ","a","r","c","h","i","v","e","d"," ","a","n","d"," ",
               "c","a","n","n","o","t"," ","b","e"," ","r","e","a","c","t",
               "i","v","a","t","e","d","."," ","T","E","R","M","I","N","A",
               "T","E">>}
    ELSE IF Slot(res, <<"s","t","a","t","u","s">>) = Str(<<"r","f","a">>)
    THEN {TextOf(Slot(res, <<"m","e","s","s","a","g","e">>))
          \o <<" ","Y","o","u","r"," ","l","i","s","t","i","n","g"," ","i",
               "s"," ","p","e","n","d","i","n","g"," ","a","p","p","r","o",
               "v","a","l","."," ","T","E","R","M","I","N","A","T","E">>}
    ELSE IF /\ Slot(res, <<"s","t","a","t","u","s">>) = Str(<<"e","r","r","o","r">>)
            /\ Slot(res, <<"r","e","t","r","y","_","n","e","e","d","e","d">>) = Bool(FALSE)
    THEN {TextOf(Slot(res, <<"m","e","s","s","a","g","e">>))
          \o <<" ","T","e","r","m","i","n","a","t","i","n","g"," ","c","o",
               "n","v","e","r","s","a","t","i","o","n","."," ","P","l","e",
               "a","s","e"," ","t","r","y"," ","a","g","a","i","n"," ","l",
               "a","t","e","r","."," ","T","E","R","M","I","N","A","T","E">>}
    ELSE {TextOf(Slot(res, <<"m","e","s","s","a","g","e">>)) \o <<" ">> \o TERMINATE}

\* a rule set that never escalates a brand approval request
after_brand_approval_status_waits(res, msgs) ==
    IF Slot(res, <<"s","t","a","t","u","s">>) = Str(<<"a","p","p","r","o","v",
          "e","d">>)
    THEN {TextOf(Slot(res, <<"m","e","s","s","a","g","e">>))
          \o <<" ","Y","o","u","r"," ","b","r","a","n","d"," ","a","p","p",
               "r","o","v","a","l"," ","r","e","q","u","e","s","t"," ","i",
               "s"," ","a","p","p","r","o","v","e","d","."," ","T","E","R",
               "M","I","N","A","T","E">>}
    ELSE {TextOf(Slot(res, <<"m","e","s","s","a","g","e">>))
          \o <<" ","P","l","e","a","s","e"," ","w","a","i","t"," ","w",
               "h","i","l","e"," ","y","o","u","r"," ","b","r","a","n",
               "d"," ","r","e","q","u","e","s","t"," ","i","s"," ","p",
               "r","o","c","e","s","s","e","d","."," ","T","E","R","M",
               "I","N","A","T","E">>}

\* rule 2, after brand approval status response
after_brand_approval_status(res, msgs) ==
    IF Slot(res, <<"s","t","a","t","u","s">>) = Str(<<"a","p","p","r","o","v",
          "e","d">>)
    THEN {TextOf(Slot(res, <<"m","e","s","s","a","g","e">>))
          \o <<" ","Y","o","u","r"," ","b","r","a","n","d"," ","a","p","p",
               "r","o","v","a","l"," ","r","e","q","u","e","s","t"," ","i",
               "s"," ","a","p","p","r","o","v","e","d","."," ","T","E","R",
               "M","I","N","A","T","E">>}
    ELSE IF /\ Slot(res, <<"s","t","a","t","u","s">>) \in {Str(<<"i","n","_","p","r","o","g","r","e","s","s">>), Str(<<"d","i","s","a","p","p","r","o","v","e","d">>)}
            /\ Slot(res, <<"t","i","m","e","l","i","n","e","_","h","o","u","r","s">>).kind = "int"
    THEN IF str_int(Slot(res, <<"t","i","m","e","l","i","n","e","_","h","o",
                                "u","r","s">>).text) <= 72
         THEN {TextOf(Slot(res, <<"m","e","s","s","a","g","e">>))
               \o <<" ","P","l","e","a","s","e"," ","w","a","i","t"," ","w",
                    "h","i","l","e"," ","y","o","u","r"," ","b","r","a","n",
                    "d"," ","r","e","q","u","e","s","t"," ","i","s"," ","p",
                    "r","o","c","e","s","s","e","d","."," ","T","E","R","M",
                    "I","N","A","T","E">>}
         ELSE {TicketCall(SessionUserId(msgs), <<"N","/","A">>,
                          <<"B","r","a","n","d"," ","a","p","p","r","o","v",
                            "a","l"," ","f","o","l","l","o","w","-","u","p">>)}
    ELSE {TextOf(Slot(res, <<"m","e","s","s","a","g","e">>)) \o <<" ">> \o TERMINATE}

\* after support ticket response.  For brand approval (rule 2) the text
\* names the ticket id.  For a listing the rule set has no rule: no further
\* step is needed, so the conversation ends with the marker (rule 4), and
\* whether the text names the ticket id is left to the assistant.
after_support_ticket(res, params) ==
    IF Slot(params, <<"r","e","a","s","o","n">>) = Str(<<"B","r","a","n","d",
          " ","a","p","p","r","o","v","a","l"," ","f","o","l","l","o","w","-",
          "u","p">>)
    THEN {TextOf(Slot(res, <<"m","e","s","s","a","g","e">>)) \o <<" ","S","u",
          "p","p","o","r","t"," ","t","i","c","k","e","t"," ">>
          \o TextOf(Slot(res, <<"t","i","c","k","e","t","_","i","d">>))
          \o <<" ","c","r","e","a","t","e","d"," ","f","o","r"," ","b","r",
               "a","n","d"," ","a","p","p","r","o","v","a","l","."," ","T",
               "E","R","M","I","N","A","T","E">>}
    ELSE {TextOf(Slot(res, <<"m","e","s","s","a","g","e">>)) \o <<" ","S","u",
          "p","p","o","r","t"," ","t","i","c","k","e","t"," ">>
            \o TextOf(Slot(res, <<"t","i","c","k","e","t","_","i","d">>)) \o <<
                  " ","c","r","e","a","t","e","d","."," ","T","E","R","M","I",
                  "N","A","T","E">>,
          TextOf(Slot(res, <<"m","e","s","s","a","g","e">>)) \o <<" ">> \o TERMINATE}

\* what the assistant writes after the result res of the call it made
after_response(func_name, params, res, msgs) ==
    IF func_name = <<"g","e","t","_","u","s","e","r","_","s","t","a","t","u",
                     "s">> THEN after_user_status(res)
    ELSE IF func_name = <<"g","e","t","_","l","i","s","t","i","n","g","_","s",
                          "t","a","t","u","s">>
    THEN after_listing_status(res, msgs)
    ELSE IF func_name = <<"g","e","t","_","b","r","a","n","d","_","a","p","p",
                          "r","o","v","a","l","_","s","t","a","t","u","s">>
    THEN after_brand_approval_status(res, msgs)
    ELSE IF func_name = <<"c","r","e","a","t","e","_","s","u","p","p","o","r",
                          "t","_","t","i","c","k","e","t">>
    THEN after_support_ticket(res, params)
    ELSE {TextOf(Slot(res, <<"m","e","s","s","a","g","e">>)) \o <<" ">> \o TERMINATE}

\* what the assistant writes after the human wrote text, asked being its
\* own last text
after_user(asked, text) ==
    IF asked = AskTopic /\ text = <<"l","i","s","t","i","n","g">> THEN {AskUserId}
    ELSE IF asked = AskTopic /\ text = <<"b","r","a","n","d"," ","a","p","p","r","o","v","a","l">> THEN {AskRequestId}
    ELSE IF asked = AskUserId
    THEN {FunctionCall(<<"g","e","t","_","u","s","e","r","_","s","t","a","t",
                         "u","s">>, <<"u","s","e","r","_","i","d">>, text)}
    ELSE IF endswith(asked, AskListingId)
    THEN {FunctionCall(<<"g","e","t","_","l","i","s","t","i","n","g","_","s",
                         "t","a","t","u","s">>, <<"l","i","s","t","i","n","g",
          "_","i","d">>, text)}
    ELSE IF asked = AskRequestId
    THEN {FunctionCall(<<"g","e","t","_","b","r","a","n","d","_","a","p","p",
                         "r","o","v","a","l","_","s","t","a","t","u","s">>, <<
          "r","e","q","u","e","s","t","_","i","d">>, text)}
    ELSE {AskTopic}

\* the texts the assistant may write next in the session msgs
sia_replies(msgs) ==
    IF msgs = <<>> THEN {}
    ELSE IF msgs[Len(msgs)].name = Str(FunctionExecutor)
    THEN after_response(
            re_search(LastSIAContent(msgs).text).func_name,
            json_loads(re_search(LastSIAContent(msgs).text).params_str).val.items,
            json_loads(msgs[Len(msgs)].content.text).val.items, msgs)
    ELSE after_user(LastSIAContent(msgs).text, msgs[Len(msgs)].content.text)


---------------------------------------------------------------------------
(* Whole sessions: SessionSpec.  The assistant follows its rule set, the  *)
(* human answers what was asked, the executor runs the calls, and the     *)
(* page of the browser keeps its conversation history.                    *)

\* chats started on the page of the browser
MaxChats == 2

\* inputs the page is given after the chat has ended
MaxQuickInputs == 1

Topics == {<<"l","i","s","t","i","n","g">>, <<"b","r","a","n","d"," ","a","p",
      "p","r","o","v","a","l">>}

SessionUserIds == {<<"1","2","3","4","5">>, <<"2","3","4">>, <<"5","6","7",
      "8","9">>, <<"9","9","9">>}

SessionListingIds == {<<"1","2","3","4">>, <<"4","5","6","2">>, <<"1","2","3",
      "1">>, <<"1","3">>, <<"7">>, <<"5","2">>}

SessionRequestIds == {<<"1","2","3">>, <<"a","b","c","1">>, <<"a","b","c","2">>, <<
      "5","9">>}

\* two of the quick-test buttons of the sidebar
QuickInputs == {<<"l","i","s","t","i","n","g">>, <<"1","2","3","4","5">>}

\* what a human who answers the question asked may type
answers(asked) ==
    IF asked = AskUserId THEN SessionUserIds
    ELSE IF endswith(asked, AskListingId) THEN SessionListingIds
    ELSE IF asked = AskRequestId THEN SessionRequestIds
    ELSE Topics

Entry(role, content) == [role |-> role, content |-> content]

\* the greeting initialize_chat puts in the conversation history
WelcomeHistory ==
    <<Entry("assistant", <<"H","e","l","l","o","!"," ","I","'","m"," ","S",
                           "I","A",","," ","y","o","u","r"," ","S","u","p",
                           "p","o","r","t"," ","I","n","t","e","l","l","i",
                           "g","e","n","c","e"," ","A","s","s","i","s","t",
                           "a","n","t","."," ","H","o","w"," ","c","a","n",
                           " ","I"," ","h","e","l","p"," ","y","o","u"," ",
                           "t","o","d","a","y","?"," ","I"," ","c","a","n",
                           " ","a","s","s","i","s","t"," ","w","i","t","h",
                           " ","l","i","s","t","i","n","g"," ","i","s","s",
                           "u","e","s"," ","o","r"," ","b","r","a","n","d",
                           " ","a","p","p","r","o","v","a","l"," ","r","e",
                           "q","u","e","s","t","s",".">>)>>

\* the positions of the messages of SIA that are no function call
Shown(msgs) ==
    {i \in SIAMessages(msgs) :
        ~startswith(dict_get(msgs[i].content, Str(<<>>)).text, FUNCTION_CALL)}

\* initialize_chat after initiate_chat returned: the opening utterance and
\* the first text of SIA that is no function call replace the history
first_response(history, msgs) ==
    IF Shown(msgs) = {} THEN history
    ELSE <<Entry("user", InitialMessage.content.text),
           Entry("assistant", msgs[Min(Shown(msgs))].content.text)>>

\* the contents of the assistant entries of the history
existing_assistant_messages(history) ==
    {history[i].content : i \in {j \in 1..Len(history) : history[j].role = "assistant"}}

RECURSIVE sia_messages(_, _, _)
\* the texts of SIA from position i on that are no function call and not
\* among existing, in the order of the session
sia_messages(msgs, i, existing) ==
    IF i > Len(msgs) THEN <<>>
    ELSE (IF i \in Shown(msgs) /\ msgs[i].content.text \notin existing
          THEN <<Entry("assistant", msgs[i].content.text)>> ELSE <<>>)
         \o sia_messages(msgs, i + 1, existing)

\* process_agent_responses: the texts of SIA that no assistant entry of
\* the history holds are appended to it
process_agent_responses(history, msgs) ==
    history \o sia_messages(msgs, 1, existing_assistant_messages(history))

\* the conversation history when the manager gave msgs and decision to the
\* handler h of the page: the handler goes on after the last round
history_after(fe, h, history, msgs, decision) ==
    IF fe # "st" \/ decision.next = "FunctionExecutor" THEN history
    ELSE IF h = "initialize_chat" THEN first_response(history, msgs)
    ELSE IF h = "process_user_input" THEN process_agent_responses(history, msgs)
    ELSE history

\* the handler that runs after the manager gave decision
handler_after(fe, h, decision) ==
    IF fe = "st" /\ decision.next # "FunctionExecutor" THEN "none" ELSE h

\* the inputs of the page since the last text of the assistant
RECURSIVE Ignored(_)
Ignored(history) ==
    IF history = <<>> THEN 0
    ELSE IF history[Len(history)].role # "user" THEN 0
    ELSE 1 + Ignored(SubSeq(history, 1, Len(history) - 1))

SessionInit ==
    /\ retry_counts = <<>>
    /\ user_context = NoContext
    /\ is_chat_active = TRUE
    /\ messages = <<>>
    /\ selected = NoDecision
    /\ call = NoCall
    /\ reply = NoReply
    /\ sessions = NoSessions
    /\ attempts = <<>>
    /\ result = NoResult
    /\ loop = NoLoop
    /\ conversation_history = <<>>
    /\ is_initialized = FALSE
    /\ handler = "none"

\* start_chat of the CLI: the opening utterance starts the session
start_chat ==
    /\ loop.state = "Idle"
    /\ messages' = <<InitialMessage>>
    /\ selected' = Selected("cli", route("cli", <<InitialMessage>>))
    /\ loop' = [fe |-> "cli", state |-> "Running", round |-> 0,
                active |-> route("cli", <<InitialMessage>>).next,
                cause |-> "none"]
    /\ sessions' = [sessions EXCEPT ![1].started = @ + 1]
    /\ UNCHANGED <<page, retry_counts, user_context, is_chat_active, call,
                   reply, attempts, result>>

\* initialize_chat of the browser, on the first load of the page and on
\* "Start New Chat": the state of the session is set anew, retry_counts is
\* left, and the opening utterance starts the session
new_chat ==
    /\ \/ loop.state = "Idle"
       \/ loop.fe = "st" /\ handler = "none"
    /\ sessions[1].started < MaxChats
    /\ retry_counts' = initialize_chat(retry_counts).retry_counts
    /\ user_context' = initialize_chat(retry_counts).user_context
    /\ is_chat_active' = initialize_chat(retry_counts).is_chat_active
    /\ is_initialized' = TRUE
    /\ conversation_history' = WelcomeHistory
    /\ handler' = "initialize_chat"
    /\ messages' = <<InitialMessage>>
    /\ selected' = Selected("st", route("st", <<InitialMessage>>))
    /\ loop' = [fe |-> "st", state |-> "Running", round |-> 0,
                active |-> route("st", <<InitialMessage>>).next,
                cause |-> "none"]
    /\ sessions' = [sessions EXCEPT ![1].started = @ + 1]
    /\ UNCHANGED <<call, reply, attempts, result>>

\* a round of SIA: the assistant writes what its rule set gives; when the
\* manager returns to the page the handler brings the history up to date
SIA_turn ==
    \E content \in sia_replies(messages) :
        /\ loop.state = "Running"
        /\ loop.active = "SIA"
        /\ round_of(loop.fe, Append(messages, Message(Str(SIA), Str(content))))
        /\ conversation_history' =
               history_after(loop.fe, handler, conversation_history,
                             Append(messages, Message(Str(SIA), Str(content))),
                             route(loop.fe, Append(messages,
                                        Message(Str(SIA), Str(content)))))
        /\ handler' =
               handler_after(loop.fe, handler,
                             route(loop.fe, Append(messages,
                                        Message(Str(SIA), Str(content)))))
        /\ UNCHANGED <<is_initialized, retry_counts, user_context, call,
                       reply, sessions, attempts, result>>

\* a round of User in the CLI: the human types the answer
human_input ==
    \E content \in answers(LastSIAContent(messages).text) :
        /\ loop.fe = "cli"
        /\ loop.state = "Running"
        /\ loop.active = "User"
        /\ round_of(loop.fe, Append(messages, Message(Str(User), Str(content))))
        /\ UNCHANGED <<page, retry_counts, user_context, call, reply,
                       sessions, attempts, result>>

\* process_user_input of the browser: the input goes to the history, and
\* to the manager when the chat is initialized and active
process_user_input ==
    \E user_input \in Topics \cup SessionUserIds \cup SessionListingIds
                      \cup SessionRequestIds \cup QuickInputs :
        /\ loop.fe = "st"
        /\ handler = "none"
        /\ IF is_chat_active
           THEN /\ loop.active = "User" => user_input \in answers(LastSIAContent(messages).text)
                /\ loop.active # "User" => user_input \in QuickInputs
           ELSE /\ user_input \in QuickInputs
                /\ Ignored(conversation_history) < MaxQuickInputs
        /\ conversation_history' =
               Append(conversation_history, Entry("user", user_input))
        /\ IF is_initialized /\ is_chat_active
           THEN /\ round_of(loop.fe, Append(messages,
                                Message(Str(User), Str(user_input))))
                /\ handler' = "process_user_input"
           ELSE UNCHANGED <<messages, selected, loop, is_chat_active, handler>>
        /\ UNCHANGED <<is_initialized, retry_counts, user_context, call,
                       reply, sessions, attempts, result>>

\* a round of FunctionExecutor: generate_reply runs the function call
FunctionExecutor_turn ==
    \E now \in CodecClocks :
        /\ loop.state = "Running"
        /\ loop.active = "FunctionExecutor"
        /\ executor_round(generate_reply(loop.fe, retry_counts, user_context,
                                         messages, now))
        /\ UNCHANGED <<page, call, sessions, attempts, result>>

SessionNext ==
    \/ start_chat
    \/ new_chat
    \/ SIA_turn
    \/ human_input
    \/ process_user_input
    \/ FunctionExecutor_turn

SessionSpec == SessionInit /\ [][SessionNext]_vars

---------------------------------------------------------------------------
(* Claims about whole sessions *)

\* the last message of the session is from name
LastFrom(name) ==
    messages # <<>> /\ messages[Len(messages)].name = Str(name)

\* the function the last call of the assistant names
LastCallName == re_search(LastSIAContent(messages).text).func_name

\* the parameters of the last call of the assistant
LastCallParams ==
    json_loads(re_search(LastSIAContent(messages).text).params_str).val.items

\* the result in the message at position i
ResultAt(i) == json_loads(messages[i].content.text).val.items

\* the executor is about to run the call of func_name whose ledger entry
\* is one short of the ceiling
AtCeiling(func_name, param) ==
    /\ loop.state = "Running"
    /\ loop.active = "FunctionExecutor"
    /\ LastCallName = func_name
    /\ TextOf(Slot(LastCallParams, param)) # <<>>
    /\ TextOf(Slot(LastCallParams, param))[1] = "5"
    /\ LedgerCount(RetryKey(func_name, TextOf(Slot(LastCallParams, param)))) + 1 >= MAX_RETRIES

\* the last message is the result of a user-status call that used up its
\* retries
UserExhausted ==
    /\ LastFrom(FunctionExecutor)
    /\ LastCallName = <<"g","e","t","_","u","s","e","r","_","s","t","a","t","u","s">>
    /\ Slot(ResultAt(Len(messages)), <<"s","t","a","t","u","s">>) = Str(<<"o","n","_","h","o","l","d">>)
    /\ Slot(ResultAt(Len(messages)), <<"r","e","a","s","o","n","_","c","o","d","e">>) = Str(<<"M","A","X","_","R","E","T","R","I","E","S","_","E","X","C","E","E","D","E","D">>)

\* the last message is the result of a listing-status call that used up
\* its retries
ListingExhausted ==
    /\ LastFrom(FunctionExecutor)
    /\ LastCallName = <<"g","e","t","_","l","i","s","t","i","n","g","_","s","t","a","t","u","s">>
    /\ Slot(ResultAt(Len(messages)), <<"s","t","a","t","u","s">>) = Str(<<"e","r","r","o","r">>)
    /\ Slot(ResultAt(Len(messages)), <<"r","e","t","r","y","_","n","e","e","d","e","d">>) = Bool(FALSE)

\* the call of func_name that the last message answers left no ledger entry
\* for its id, an id on the retry path
AfterCeiling(func_name, param) ==
    /\ LastFrom(FunctionExecutor)
    /\ LastCallName = func_name
    /\ TextOf(Slot(LastCallParams, param)) # <<>>
    /\ TextOf(Slot(LastCallParams, param))[1] = "5"
    /\ RetryKey(func_name, TextOf(Slot(LastCallParams, param))) \notin DOMAIN retry_counts

\* C11: the two retry-exhaustion outcomes differ and each is kept.  The
\* user-status call that reaches the ceiling deletes the ledger entry and
\* returns on_hold with reason code MAX_RETRIES_EXCEEDED and a message
\* without the marker, and the assistant goes on by asking for the listing
\* id, the session still running; the listing-status call that reaches the
\* ceiling deletes the entry and returns error with retry_needed false and
\* a message text that ends with the marker, and the assistant ends the
\* session with a marker message.
C11_ExhaustionOutcomes ==
    /\ [][AtCeiling(<<"g","e","t","_","u","s","e","r","_","s","t","a","t","u","s">>, <<"u","s","e","r","_","i","d">>) =>
            /\ RetryKey(<<"g","e","t","_","u","s","e","r","_","s","t","a","t","u","s">>, TextOf(Slot(LastCallParams, <<"u","s","e","r","_","i","d">>)))
                   \notin DOMAIN retry_counts'
            /\ Len(messages') = Len(messages) + 1
            /\ messages'[Len(messages')].name = Str(FunctionExecutor)]_vars
    /\ [](AfterCeiling(<<"g","e","t","_","u","s","e","r","_","s","t","a","t","u","s">>, <<"u","s","e","r","_","i","d">>) =>
            /\ UserExhausted
            /\ ~contains(TERMINATE, TextOf(Slot(ResultAt(Len(messages)), <<"m","e","s","s","a","g","e">>)))
            /\ loop.state = "Running" /\ loop.active = "SIA")
    /\ [][UserExhausted =>
            /\ Len(messages') = Len(messages) + 1
            /\ messages'[Len(messages')].name = Str(SIA)
            /\ endswith(messages'[Len(messages')].content.text, AskListingId)
            /\ ~endswith(rstrip(messages'[Len(messages')].content.text), TERMINATE)
            /\ loop'.state = "Running" /\ loop'.active = "User"]_vars
    /\ [][AtCeiling(<<"g","e","t","_","l","i","s","t","i","n","g","_","s","t","a","t","u","s">>, <<"l","i","s","t","i","n","g","_","i","d">>) =>
            /\ RetryKey(<<"g","e","t","_","l","i","s","t","i","n","g","_","s","t","a","t","u","s">>, TextOf(Slot(LastCallParams, <<"l","i","s","t","i","n","g","_","i","d">>)))
                   \notin DOMAIN retry_counts'
            /\ Len(messages') = Len(messages) + 1
            /\ messages'[Len(messages')].name = Str(FunctionExecutor)]_vars
    /\ [](AfterCeiling(<<"g","e","t","_","l","i","s","t","i","n","g","_","s","t","a","t","u","s">>, <<"l","i","s","t","i","n","g","_","i","d">>) =>
            /\ ListingExhausted
            /\ endswith(TextOf(Slot(ResultAt(Len(messages)), <<"m","e","s","s","a","g","e">>)), TERMINATE)
            /\ loop.state = "Running" /\ loop.active = "SIA")
    /\ [][ListingExhausted =>
            /\ Len(messages') = Len(messages) + 1
            /\ messages'[Len(messages')].name = Str(SIA)
            /\ endswith(rstrip(messages'[Len(messages')].content.text), TERMINATE)
            /\ loop'.state = "Terminated" /\ loop'.cause = "marker"]_vars

\* a session that met both: the user-status result of the exhaustion is
\* followed by the question for the listing id, and the listing-status
\* result of the exhaustion by the marker message that ended the session
C11_Witness ==
    /\ loop.state = "Terminated"
    /\ Len(messages) >= 4
    /\ messages[Len(messages) - 1].name = Str(FunctionExecutor)
    /\ Slot(ResultAt(Len(messages) - 1), <<"r","e","t","r","y","_","n","e","e","d","e","d">>) = Bool(FALSE)
    /\ \E i \in 1..(Len(messages) - 3) :
        /\ messages[i].name = Str(FunctionExecutor)
        /\ Slot(ResultAt(i), <<"r","e","a","s","o","n","_","c","o","d","e">>) = Str(<<"M","A","X","_","R","E","T","R","I","E","S","_","E","X","C","E","E","D","E","D">>)
        /\ endswith(messages[i + 1].content.text, AskListingId)


\* the message at position i is a call of func_name by the assistant
CallAt(i, func_name) ==
    /\ messages[i].name = Str(SIA)
    /\ re_search(messages[i].content.text).matched
    /\ re_search(messages[i].content.text).func_name = func_name

\* the message at position i is a result of the executor with status
StatusAt(i, status) ==
    /\ messages[i].name = Str(FunctionExecutor)
    /\ Slot(ResultAt(i), <<"s","t","a","t","u","s">>) = Str(status)

\* the human gave, at position i, a listing id that ends with "2" and does
\* not start with "5"
BlockedListingGiven(i) ==
    /\ i > 1
    /\ messages[i].name = Str(User)
    /\ messages[i - 1].name = Str(SIA)
    /\ endswith(messages[i - 1].content.text, AskListingId)
    /\ endswith(messages[i].content.text, <<"2">>)
    /\ ~startswith(messages[i].content.text, <<"5">>)

\* the session after the listing id given at position i: the call, the
\* result blocked, the ticket call, the result created, and the message of
\* the assistant that ends the session with the marker; with id, that
\* message also holds the ticket id of the result
ListingTicketSession(i, id) ==
    /\ Len(messages) >= i + 1 =>
           /\ CallAt(i + 1, <<"g","e","t","_","l","i","s","t","i","n","g","_","s","t","a","t","u","s">>)
           /\ Slot(json_loads(re_search(messages[i + 1].content.text).params_str).val.items,
                   <<"l","i","s","t","i","n","g","_","i","d">>) = messages[i].content
    /\ Len(messages) >= i + 2 => StatusAt(i + 2, <<"b","l","o","c","k","e","d">>)
    /\ Len(messages) >= i + 3 => CallAt(i + 3, <<"c","r","e","a","t","e","_","s","u","p","p","o","r","t","_","t","i","c","k","e","t">>)
    /\ Len(messages) >= i + 4 =>
           /\ StatusAt(i + 4, <<"c","r","e","a","t","e","d">>)
           /\ startswith(TextOf(Slot(ResultAt(i + 4), <<"t","i","c","k","e","t","_","i","d">>)), <<"T","I","C","K","E","T">>)
    /\ Len(messages) >= i + 5 =>
           /\ messages[i + 5].name = Str(SIA)
           /\ endswith(rstrip(messages[i + 5].content.text), TERMINATE)
           /\ id => contains(TextOf(Slot(ResultAt(i + 4), <<"t","i","c","k","e","t","_","i","d">>)),
                             messages[i + 5].content.text)
           /\ Len(messages) = i + 5
           /\ loop.state = "Terminated"
    /\ Len(messages) < i + 5 => loop.state = "Running"

\* C13: a listing session in which the human gives a listing id ending in
\* "2" that does not start with "5" goes assistant call, result blocked,
\* assistant ticket-creation call, result created, and ends with a message
\* of the assistant that contains the generated ticket id and ends with
\* the marker.
C13_ListingTicketSession ==
    \A i \in 1..Len(messages) :
        BlockedListingGiven(i) => ListingTicketSession(i, TRUE)

\* the same session without what it says of the ticket id in the last
\* message
C13_UpToTheTicketId ==
    \A i \in 1..Len(messages) :
        BlockedListingGiven(i) => ListingTicketSession(i, FALSE)

\* a session that went through the ticket creation and ended
C13_Ended ==
    /\ loop.state = "Terminated"
    /\ \E i \in 1..Len(messages) : BlockedListingGiven(i) /\ Len(messages) = i + 5

\* the request id of the call at position i
RequestIdAt(i) ==
    TextOf(Slot(json_loads(re_search(messages[i].content.text).params_str).val.items,
                <<"r","e","q","u","e","s","t","_","i","d">>))

\* timeline_hours of the result at position i
TimelineAt(i) == str_int(Slot(ResultAt(i), <<"t","i","m","e","l","i","n","e",
      "_","h","o","u","r","s">>).text)

\* the positions of the ticket-creation calls of the session
TicketCalls ==
    {j \in 1..Len(messages) : CallAt(j, <<"c","r","e","a","t","e","_","s","u",
                                          "p","p","o","r","t","_","t","i","c",
                                          "k","e","t">>)}

\* the positions of the results of the session with status created
TicketsCreated ==
    {j \in 1..Len(messages) : StatusAt(j, <<"c","r","e","a","t","e","d">>)}

\* the message at position i is a text of the assistant that ends the
\* session with the marker
TerminalAt(i) ==
    /\ messages[i].name = Str(SIA)
    /\ ~re_search(messages[i].content.text).matched
    /\ endswith(rstrip(messages[i].content.text), TERMINATE)
    /\ Len(messages) = i
    /\ loop.state = "Terminated"

\* the session after the brand approval call at position i
BrandSession(i) ==
    /\ Len(messages) >= i + 1 =>
           \/ StatusAt(i + 1, <<"a","p","p","r","o","v","e","d">>)
           \/ StatusAt(i + 1, <<"i","n","_","p","r","o","g","r","e","s","s">>)
           \/ StatusAt(i + 1, <<"d","i","s","a","p","p","r","o","v","e","d">>)
    /\ Len(messages) >= i + 2 =>
           IF StatusAt(i + 1, <<"a","p","p","r","o","v","e","d">>) THEN TerminalAt(i + 2)
           ELSE IF TimelineAt(i + 1) > 72
           THEN /\ CallAt(i + 2, <<"c","r","e","a","t","e","_","s","u","p","p","o","r","t","_","t","i","c","k","e","t">>)
                /\ Len(messages) >= i + 3 => StatusAt(i + 3, <<"c","r","e","a","t","e","d">>)
                /\ Len(messages) >= i + 4 => TerminalAt(i + 4)
                /\ Len(messages) < i + 4 => loop.state = "Running"
           ELSE TerminalAt(i + 2)
    /\ Len(messages) < i + 2 => loop.state = "Running"
    /\ endswith(RequestIdAt(i), <<"2">>) =>
           /\ Len(messages) >= i + 1 =>
                  StatusAt(i + 1, <<"i","n","_","p","r","o","g","r","e","s","s">>) /\ TimelineAt(i + 1) = 48
           /\ TicketCalls = {}
           /\ TicketsCreated = {}
    /\ (~endswith(RequestIdAt(i), <<"1">>) /\ ~endswith(RequestIdAt(i), <<"2">>)) =>
           /\ Len(messages) >= i + 1 =>
                  StatusAt(i + 1, <<"d","i","s","a","p","p","r","o","v","e","d">>) /\ TimelineAt(i + 1) = 80
           /\ TicketCalls \subseteq {i + 2}
           /\ TicketsCreated \subseteq {i + 3}
           /\ loop.state = "Terminated" => TicketCalls = {i + 2} /\ TicketsCreated = {i + 3}

\* what the rule set gives, when the brand approval call is made, for every
\* status and timeline, also those the
\* backend never returns: a ticket-creation call exactly when the status is
\* in_progress or disapproved and timeline_hours is greater than 72, a text
\* with the marker otherwise
BrandRule ==
    \A status \in {<<"a","p","p","r","o","v","e","d">>, <<"i","n","_","p","r",
          "o","g","r","e","s","s">>, <<"d","i","s","a","p","p","r","o","v",
                                       "e","d">>} :
        \A hours \in {<<"7","2">>, <<"7","3">>} :
            \A text \in after_brand_approval_status(
                            <<[k |-> <<"s","t","a","t","u","s">>, v |-> Str(status)],
                              [k |-> <<"m","e","s","s","a","g","e">>, v |-> Str(<<
                                    "m">>)],
                              [k |-> <<"t","i","m","e","l","i","n","e","_",
                                       "h","o","u","r","s">>, v |-> IntVal(hours)]>>,
                            messages) :
                IF status # <<"a","p","p","r","o","v","e","d">> /\ str_int(hours) > 72
                THEN /\ re_search(text).matched
                     /\ re_search(text).func_name = <<"c","r","e","a","t","e","_","s","u","p","p","o","r","t","_","t","i","c","k","e","t">>
                ELSE /\ ~re_search(text).matched
                     /\ endswith(rstrip(text), TERMINATE)

\* C14: in a brand-approval session status approved leads to a terminal
\* message; status in_progress or disapproved leads to a ticket-creation
\* call when timeline_hours is greater than 72 and to a terminal message
\* otherwise.  A request id ending in "2" never creates a ticket, and a
\* request id ending in neither "1" nor "2" creates exactly one ticket
\* before the session terminates.
C14_BrandApprovalSession ==
    /\ (messages # <<>> /\ CallAt(Len(messages), <<"g","e","t","_","b","r","a","n","d","_","a","p","p","r","o","v","a","l","_","s","t","a","t","u","s">>)) => BrandRule
    /\ \A i \in 1..Len(messages) :
           CallAt(i, <<"g","e","t","_","b","r","a","n","d","_","a","p","p",
                       "r","o","v","a","l","_","s","t","a","t","u","s">>) => BrandSession(i)

\* a brand-approval session that has ended after its one ticket, and whose
\* request id ends in neither "1" nor "2"
C14_Witness ==
    /\ loop.state = "Terminated"
    /\ \E i \in 1..Len(messages) :
        /\ CallAt(i, <<"g","e","t","_","b","r","a","n","d","_","a","p","p","r","o","v","a","l","_","s","t","a","t","u","s">>)
        /\ ~endswith(RequestIdAt(i), <<"1">>)
        /\ ~endswith(RequestIdAt(i), <<"2">>)
        /\ TicketCalls = {i + 2}
        /\ TicketsCreated = {i + 3}
        /\ Len(messages) = i + 4

\* the router has returned terminate for the session
RouterTerminated == selected.fe # "none" /\ selected.next = "None"

\* the step starts a new session
NewSessionStarted ==
    /\ sessions'[1].started = sessions[1].started + 1
    /\ messages' = <<InitialMessage>>
    /\ loop'.state = "Running"
    /\ loop'.round = 0

\* C15: once the router has returned terminate for a session the session
\* is Terminated and stays so: until a new session is started no message
\* is appended to it, no role is given the turn and no backend operation
\* is invoked, whatever the page is given in between.
C15_TerminatedStays ==
    /\ [](RouterTerminated => loop.state = "Terminated" /\ loop.active = "")
    /\ [][RouterTerminated =>
            \/ NewSessionStarted
            \/ /\ messages' = messages
               /\ loop' = loop
               /\ selected' = selected
               /\ reply' = reply
               /\ retry_counts' = retry_counts
               /\ user_context' = user_context]_vars

\* the page was given an input after the router ended the session
C15_Witness ==
    /\ RouterTerminated
    /\ loop.fe = "st"
    /\ ~is_chat_active
    /\ Ignored(conversation_history) >= 1

\* the name of the role that has the turn
ActiveName ==
    IF loop.active = "SIA" THEN Str(SIA)
    ELSE IF loop.active = "User" THEN Str(User)
    ELSE IF loop.active = "FunctionExecutor" THEN Str(FunctionExecutor)
    ELSE None

\* C20: within one session exactly one role acts per round and appends
\* exactly one message before the router is evaluated, and the message
\* sequence is append-only.  Every step that changes the messages of a
\* session appends one message of the role that had the turn and leaves
\* the earlier messages as they were, every round appends one message, and
\* the decision in force is the one the router gives on the updated
\* session.
C20_OneMessagePerRound ==
    /\ [][messages' # messages =>
            \/ NewSessionStarted
            \/ /\ loop.state = "Running"
               /\ Len(messages') = Len(messages) + 1
               /\ SubSeq(messages', 1, Len(messages)) = messages
               /\ messages'[Len(messages')].name = ActiveName
               /\ loop'.round = loop.round + 1]_vars
    /\ [][loop'.round # loop.round => messages' # messages]_vars
    /\ [](loop.state # "Idle" =>
            /\ loop.round = Len(messages) - 1
            /\ selected = Selected(loop.fe, route(loop.fe, messages)))

\* a session in which the three roles have acted in turn
C20_Witness ==
    /\ Len(messages) >= 7
    /\ loop.round = Len(messages) - 1
    /\ \E i \in 2..(Len(messages) - 2) :
        /\ messages[i].name = Str(User)
        /\ messages[i + 1].name = Str(SIA)
        /\ messages[i + 2].name = Str(FunctionExecutor)

---------------------------------------------------------------------------
(* Sessions in which the language-generation call of the assistant may    *)
(* fail: FailureSpec.  The failure reaches the handler that started the   *)
(* run as an exception, which is what the handlers provide for.           *)

\* str(e) of the exception of a failed or timed-out call
ErrorTexts == {<<"R","e","q","u","e","s","t"," ","t","i","m","e","d"," ","o",
                 "u","t",".">>}

\* start_chat, except Exception: the error is printed and raised again, so
\* the exception leaves start_chat and the process
start_chat_except(l) ==
    [l EXCEPT !.state = "Raised", !.active = "", !.cause = "exception"]

\* process_user_input, except Exception: st.error shows the error and an
\* entry of the assistant is appended to the conversation history
process_user_input_except(history, error_msg) ==
    Append(history,
           Entry("assistant",
                 <<"I","'","m"," ","s","o","r","r","y",","," ","t","h","e",
                   "r","e"," ","w","a","s"," ","a","n"," ","e","r","r","o",
                   "r"," ","p","r","o","c","e","s","s","i","n","g"," ","y",
                   "o","u","r"," ","r","e","q","u","e","s","t","."," ","E",
                   "r","r","o","r",":"," ">>
                 \o error_msg))

\* initialize_chat, except Exception: st.error shows the error, the
\* conversation history keeps the greeting
initialize_chat_except(history) ==
    history

\* the run of the manager is left by the exception and the page has the
\* control again: nothing was appended, is_chat_active is as it was, and
\* the next input goes to the manager again
page_after_except(l) ==
    [l EXCEPT !.active = "User", !.cause = "exception"]

\* the last round in which the call of the assistant may fail
MaxFailRound == 6

\* the language-generation call of the assistant fails or times out in its
\* round, once, in the last chat of the page or in the session of the CLI
generation_fails ==
    \E error_msg \in ErrorTexts :
        /\ loop.state = "Running"
        /\ loop.active = "SIA"
        /\ loop.cause = "none"
        /\ loop.round <= MaxFailRound
        /\ loop.fe = "st" => sessions[1].started = MaxChats
        /\ loop' = IF loop.fe = "cli" THEN start_chat_except(loop)
                   ELSE page_after_except(loop)
        /\ conversation_history' =
               IF loop.fe = "st" /\ handler = "process_user_input"
               THEN process_user_input_except(conversation_history, error_msg)
               ELSE IF loop.fe = "st"
               THEN initialize_chat_except(conversation_history)
               ELSE conversation_history
        /\ handler' = IF loop.fe = "st" THEN "none" ELSE handler
        /\ UNCHANGED <<messages, selected, is_chat_active, is_initialized,
                       retry_counts, user_context, call, reply, sessions,
                       attempts, result>>

FailureNext ==
    \/ start_chat
    \/ new_chat
    \/ SIA_turn
    \/ human_input
    \/ process_user_input
    \/ FunctionExecutor_turn
    \/ generation_fails

FailureSpec == SessionInit /\ [][FailureNext]_vars

\* the step in which the call of the assistant fails
GenerationFailed ==
    /\ loop.state = "Running"
    /\ loop.active = "SIA"
    /\ loop.cause = "none"
    /\ loop'.cause = "exception"

\* an apologetic chat message is produced by the step
ApologyProduced ==
    \/ /\ Len(messages') = Len(messages) + 1
       /\ messages'[Len(messages')].name = Str(SIA)
    \/ /\ Len(conversation_history') = Len(conversation_history) + 1
       /\ conversation_history'[Len(conversation_history')].role = "assistant"
       /\ startswith(conversation_history'[Len(conversation_history')].content,
                     <<"I","'","m"," ","s","o","r","r","y">>)

\* C21: when the language-generation call of the assistant fails or times
\* out the session driver does not crash: it produces an apologetic chat
\* message, the session becomes Terminated, and the ledger and the messages
\* already in the session are left as they were.
C21_FailureEndsSession ==
    [][GenerationFailed =>
          /\ loop'.state = "Terminated"
          /\ ApologyProduced
          /\ retry_counts' = retry_counts
          /\ SubSeq(messages', 1, Len(messages)) = messages]_vars

\* the part of it that holds: the failure leaves the ledger and the
\* messages of the session as they were
FailureKeepsLedgerAndMessages ==
    [][GenerationFailed =>
          /\ retry_counts' = retry_counts
          /\ messages' = messages]_vars

\* the failure ends the session nowhere: the CLI raises, in the browser the
\* chat stays active
FailureNeverEndsSession ==
    [][GenerationFailed =>
          /\ loop'.state # "Terminated"
          /\ loop.fe = "cli" => loop'.state = "Raised" /\ ~ApologyProduced
          /\ loop.fe = "st" => loop'.state = "Running" /\ is_chat_active'
          /\ (loop.fe = "st" /\ handler = "initialize_chat") => ~ApologyProduced
          /\ (loop.fe = "st" /\ handler = "process_user_input") => ApologyProduced]_vars

---------------------------------------------------------------------------
(* The cause of the end of a session *)

---------------------------------------------------------------------------
(* Detection of the termination marker: MarkerSpec.  The two routers and  *)
(* is_termination_msg of the manager are applied to texts with the marker *)
(* at the end, inside, in other case, cut short and followed by other     *)
(* characters.                                                            *)

MarkerHeads == {<<>>, <<"D","o","n","e","."," ">>, <<"T","E","R","M","I","N",
      "A","T","E"," ">>}

MarkerWords ==
    {<<>>, TERMINATE, <<"t","e","r","m","i","n","a","t","e">>, <<"T","e","r",
          "m","i","n","a","t","e">>, <<"T","E","R","M","I","N","A","T","e">>, <<
          "E","R","M","I","N","A","T","E">>,
     <<"T","E","R","M","I","N","A","T","E","D">>}

MarkerTails ==
    {<<>>, <<" ">>, <<"\n">>, <<" ","\t","\r","\n","\f">>, <<".">>, <<" ","x">>,
     <<"!"," ">>}

MarkerTexts ==
    {h \o w \o t : h \in MarkerHeads, w \in MarkerWords, t \in MarkerTails}

\* is_termination_msg of a manager that looks for the marker anywhere
is_termination_msg_anywhere(msg) ==
    contains(TERMINATE, dict_get(msg.content, Str(<<>>)).text)

\* is_termination_msg of the manager:
\* msg.get("content", "").rstrip().endswith("TERMINATE")
is_termination_msg(msg) ==
    endswith(rstrip(dict_get(msg.content, Str(<<>>)).text), TERMINATE)

MarkerInit ==
    /\ retry_counts = <<>>
    /\ user_context = NoContext
    /\ is_chat_active = TRUE
    /\ messages \in {<<Message(Str(n), Str(t))>> :
                        n \in {SIA, FunctionExecutor, User}, t \in MarkerTexts}
    /\ selected = NoDecision
    /\ call = NoCall
    /\ reply = NoReply
    /\ sessions = NoSessions
    /\ attempts = <<>>
    /\ result = NoResult
    /\ loop = NoLoop
    /\ conversation_history = <<>>
    /\ is_initialized = FALSE
    /\ handler = "none"

\* the manager asks is_termination_msg about the message and ends the
\* session when it says so
manager_checks ==
    /\ loop.state = "Idle"
    /\ loop' = [fe |-> "cli",
                state |-> IF is_termination_msg(messages[Len(messages)])
                          THEN "Terminated" ELSE "Running",
                round |-> 0, active |-> "",
                cause |-> IF is_termination_msg(messages[Len(messages)])
                          THEN "marker" ELSE "none"]
    /\ UNCHANGED <<page, retry_counts, user_context, is_chat_active, messages,
                   selected, call, reply, sessions, attempts, result>>

\* the CLI router decides on the message
marker_select_speaker ==
    /\ selected.fe = "none"
    /\ selected' = Selected("cli", speaker_selection_func(messages))
    /\ UNCHANGED <<page, retry_counts, user_context, is_chat_active, messages,
                   call, reply, sessions, attempts, result, loop>>

\* the browser router decides on the message
marker_select_speaker_st ==
    /\ selected.fe = "none"
    /\ selected' = Selected("st", speaker_selection_func_st(messages))
    /\ is_chat_active' = chat_active_after("st", is_chat_active,
                                           speaker_selection_func_st(messages))
    /\ UNCHANGED <<page, retry_counts, user_context, messages, call, reply,
                   sessions, attempts, result, loop>>

MarkerNext ==
    \/ manager_checks
    \/ marker_select_speaker
    \/ marker_select_speaker_st

MarkerSpec == MarkerInit /\ [][MarkerNext]_vars

\* the text of the message
MarkerText == messages[1].content.text

\* the text with its trailing whitespace removed, character by character
Trimmed(t) ==
    SubSeq(t, 1, Max({0} \cup {i \in 1..Len(t) :
                                   t[i] \notin {" ", "\t", "\n", "\r", "\f"}}))

\* the last nine characters of the trimmed text are TERMINATE
LastNineAreMarker(t) ==
    /\ Len(Trimmed(t)) >= 9
    /\ \A i \in 1..9 : Trimmed(t)[Len(Trimmed(t)) - 9 + i] = TERMINATE[i]

\* C23: a text terminates the session if and only if, with its trailing
\* whitespace removed, its last nine characters are TERMINATE, in the two
\* routers and in is_termination_msg alike; a marker in lower or mixed
\* case, a marker followed by a character that is no whitespace and a
\* marker that occurs only inside the text do not terminate.
C23_ExactSuffix ==
    /\ selected.fe # "none" =>
           (selected.next = "None" <=> LastNineAreMarker(MarkerText))
    /\ selected.fe = "st" =>
           (~is_chat_active <=> LastNineAreMarker(MarkerText))
    /\ loop.state # "Idle" =>
           (loop.state = "Terminated" <=> LastNineAreMarker(MarkerText))
    /\ (selected.fe # "none" /\ loop.state # "Idle"
        /\ \/ \E w \in {<<"t","e","r","m","i","n","a","t","e">>, <<"T","e","r","m","i","n","a","t","e">>, <<"T","E","R","M","I","N","A","T","e">>} :
                  endswith(Trimmed(MarkerText), w)
           \/ \E c \in {".", "x", "!", "D"} :
                  endswith(Trimmed(MarkerText), TERMINATE \o <<c>>)
           \/ /\ contains(TERMINATE, MarkerText)
              /\ ~endswith(Trimmed(MarkerText), TERMINATE)) =>
           (selected.next # "None" /\ loop.state = "Running")

\* a text with the marker inside and a lower-case marker at its end, that
\* the browser router and the manager have let pass
C23_Witness ==
    /\ MarkerText = <<"T","E","R","M","I","N","A","T","E"," ","t","e","r","m","i","n","a","t","e">> \o <<" ","\t","\r","\n","\f">>
    /\ selected.fe = "st"
    /\ selected.next = "SIA"
    /\ is_chat_active
    /\ loop.state = "Running"

\* a text that ends with the marker and whitespace, that ended the session
MarkerThenWhitespace ==
    /\ MarkerText = <<"D","o","n","e","."," ","T","E","R","M","I","N","A","T","E">> \o <<" ","\t","\r","\n","\f">>
    /\ selected.fe = "cli"
    /\ selected.next = "None"
    /\ loop.state = "Terminated"

---------------------------------------------------------------------------
(* The three places that decide whether a text is a function call:        *)
(* ShapeSpec.  A session holds the opening utterance and one message of   *)
(* SIA; the router, generate_reply of FunctionExecutor and                *)
(* execute_function_call are applied to it in both front ends.            *)

ShapeHeads == {<<>>, <<" ","\n">>, <<"x"," ">>}

ShapePrefixes == {FUNCTION_CALL, <<"f","u","n","c","t","i","o","n","_","c",
                                   "a","l","l",":">>}

ShapeNames == {<<>>, <<"g","e","t","_","u","s","e","r","_","s","t","a","t",
                       "u","s">>, <<"a","-","b">>}

ShapeGaps == {<<>>, <<" ">>, <<"\n","\t">>}

ShapeBodies ==
    {<<"{","}">>,
     <<"{","\"","u","s","e","r","_","i","d","\"",":"," ","\"","1","2","\"","}">>,
     <<"{","\n","\"","u","s","e","r","_","i","d","\"",":","\n","\"","1","2",
       "\"","\n","}">>,
     <<"{","x","}">>,
     <<"{","\"","u","s","e","r","_","i","d","\"",":"," ","\"","1","2","\"">>,
     <<"[","]">>}

ShapeTails == {<<>>, <<" ","\n">>, <<" ","x">>, <<" ">> \o TERMINATE}

ShapeTexts ==
    {h \o p \o n \o g \o b \o t :
        h \in ShapeHeads, p \in ShapePrefixes, n \in ShapeNames,
        g \in ShapeGaps, b \in ShapeBodies, t \in ShapeTails}

ShapeInit ==
    /\ retry_counts = <<>>
    /\ user_context = NoContext
    /\ is_chat_active = TRUE
    /\ messages \in {<<InitialMessage, Message(Str(SIA), Str(t))>> :
                        t \in ShapeTexts}
    /\ selected = NoDecision
    /\ call = NoCall
    /\ reply = NoReply
    /\ sessions = NoSessions
    /\ attempts = <<>>
    /\ result = NoResult
    /\ loop = NoLoop
    /\ conversation_history = <<>>
    /\ is_initialized = FALSE
    /\ handler = "none"

\* the router of a front end decides on the message of SIA
shape_select_speaker ==
    /\ selected.fe = "none"
    /\ \E fe \in {"cli", "st"} :
        /\ selected' = Selected(fe, route(fe, messages))
        /\ is_chat_active' = chat_active_after(fe, is_chat_active,
                                               route(fe, messages))
    /\ UNCHANGED <<page, retry_counts, user_context, messages, call, reply,
                   sessions, attempts, result, loop>>

\* FunctionExecutor is asked for its reply to the session
shape_generate_reply ==
    /\ call.fe = "none"
    /\ \E fe \in {"cli", "st"}, now \in CodecClocks :
        /\ call' = [fe |-> fe, message |-> LastSIAContent(messages).text,
                    now |-> now, counts |-> retry_counts]
        /\ reply' = generate_reply(fe, retry_counts, user_context, messages,
                                   now)
    /\ retry_counts' = reply'.counts
    /\ user_context' = reply'.context
    /\ loop' = [loop EXCEPT !.active = "FunctionExecutor"]
    /\ UNCHANGED <<page, is_chat_active, messages, selected, sessions,
                   attempts, result>>

\* execute_function_call is called with the text of the message
shape_execute_function_call ==
    /\ call.fe = "none"
    /\ \E fe \in {"cli", "st"}, now \in CodecClocks :
        /\ call' = [fe |-> fe, message |-> LastSIAContent(messages).text,
                    now |-> now, counts |-> retry_counts]
        /\ reply' = IF fe = "cli"
                    THEN execute_function_call(retry_counts, user_context,
                             LastSIAContent(messages).text)
                    ELSE execute_function_call_st(retry_counts, user_context,
                             LastSIAContent(messages).text, now)
    /\ retry_counts' = reply'.counts
    /\ user_context' = reply'.context
    /\ UNCHANGED <<page, is_chat_active, messages, selected, sessions,
                   attempts, result, loop>>

ShapeNext ==
    \/ shape_select_speaker
    \/ shape_generate_reply
    \/ shape_execute_function_call

ShapeSpec == ShapeInit /\ [][ShapeNext]_vars

\* the text of the message of SIA
ShapeText == messages[Len(messages)].content.text

\* the router took the text for a function call
RouterAccepted == selected.next = "FunctionExecutor"

\* generate_reply was asked and ran the call
ExecutorAsked == call.fe # "none" /\ loop.active = "FunctionExecutor"

\* execute_function_call was called with the text
DecoderCalled == call.fe # "none" /\ loop.active = ""

\* t without the whitespace around it is the prefix, one or more word
\* characters and, with nothing in between, an opening brace, anything, a
\* closing brace
HasShapeWithoutGap(t) ==
    \E a \in 0..(Len(t) - 14) :
        /\ \A i \in 1..a : t[i] \in Whitespace
        /\ \A i \in 1..14 : t[a + i] = FUNCTION_CALL[i]
        /\ \E b \in (a + 16)..Len(t) :
            /\ t[b] = "{"
            /\ \A i \in (a + 15)..(b - 1) : t[i] \in WordChars
            /\ \E e \in (b + 1)..Len(t) :
                /\ t[e] = "}"
                /\ \A i \in (e + 1)..Len(t) : t[i] \in Whitespace

\* C24 as stated: the router, generate_reply and execute_function_call take
\* a text for a function call exactly when, without the whitespace around
\* it, it is FUNCTION_CALL:, an identifier of word characters and directly
\* after it a brace-delimited body
C24_ShapeWithoutGap ==
    /\ selected.fe # "none" =>
        (RouterAccepted <=> HasShapeWithoutGap(ShapeText))
    /\ ExecutorAsked =>
        (reply.branch # "none" <=> HasShapeWithoutGap(ShapeText))
    /\ DecoderCalled =>
        (reply.branch # "invalid_format" <=> HasShapeWithoutGap(ShapeText))

\* C24, amended: the three take exactly the same texts for a function call,
\* those that without the whitespace around them are FUNCTION_CALL:, an
\* identifier of word characters, whitespace or nothing, and a body between
\* an opening and a closing brace that may hold newlines
C24_SameTexts ==
    /\ selected.fe # "none" => (RouterAccepted <=> HasShape(ShapeText))
    /\ ExecutorAsked => (reply.branch # "none" <=> HasShape(ShapeText))
    /\ DecoderCalled =>
        (reply.branch # "invalid_format" <=> HasShape(ShapeText))

\* a text with a line break inside the braces and whitespace in front of
\* them was routed to FunctionExecutor and decoded
C24_Witness ==
    /\ RouterAccepted
    /\ DecoderCalled
    /\ reply.branch = "success"
    /\ HasShape(ShapeText)
    /\ ~HasShapeWithoutGap(ShapeText)
    /\ \E i \in 1..Len(ShapeText) : ShapeText[i] = "{" /\ ShapeText[i + 1] = "\n"

---------------------------------------------------------------------------
(* The roles the router selects, on the sessions of LoopSpec.             *)

\* the names of the senders of the messages of the session
Senders == {messages[i].name : i \in 1..Len(messages)}

\* C25: the router never selects Coordinator: what it returns is None
\* (terminate), SIA, FunctionExecutor or User, the role that acts next is
\* one of the three, and no message of the session is from Coordinator.
C25_CoordinatorNeverSelected ==
    /\ selected.fe # "none" =>
        selected.next \in {"None", "SIA", "FunctionExecutor", "User"}
    /\ loop.state = "Running" =>
        loop.active \in {"SIA", "FunctionExecutor", "User"}
    /\ Str(Coordinator) \notin Senders
    /\ Senders \subseteq {Str(User), Str(SIA), Str(FunctionExecutor)}

\* a session that ended on the marker after the three roles have spoken and
\* the router has decided on every message
C25_Witness ==
    /\ loop.state = "Terminated"
    /\ loop.cause = "marker"
    /\ selected.next = "None"
    /\ Senders = {Str(User), Str(SIA), Str(FunctionExecutor)}
    /\ loop.round = Len(messages) - 1
    /\ loop.round >= 4

---------------------------------------------------------------------------
(* Round trip of the codec, on the calls of CodecSpec.                    *)

\* C26: the text execute_function_call returns parses as JSON, and the
\* object read back is the object that was serialized: the same keys in the
\* same order with the same values of the same types.
C26_RoundTrip ==
    (Executed /\ reply.branch # "raised") =>
        /\ reply.obj.kind = "dict"
        /\ Parsed = [ok |-> TRUE, pos |-> Len(reply.reply) + 1,
                     val |-> reply.obj]

\* the result of a ticket whose message holds quotes and a line break was
\* read back
C26_Witness ==
    /\ reply.branch = "success"
    /\ reply.called = <<"c","r","e","a","t","e","_","s","u","p","p","o","r",
                        "t","_","t","i","c","k","e","t">>
    /\ \E i \in 1..Len(reply.obj.items) :
        /\ reply.obj.items[i].v.kind = "str"
        /\ \E n \in 1..Len(reply.obj.items[i].v.text) :
                reply.obj.items[i].v.text[n] = "\n"
        /\ \E n \in 1..Len(reply.obj.items[i].v.text) :
                reply.obj.items[i].v.text[n] = "\""
    /\ Parsed.val = reply.obj

---------------------------------------------------------------------------
(* The first move and the messages of User, on the sessions of RouterSpec *)

\* the last message is from User and has a text that does not end with the
\* marker
UserGoesOn ==
    /\ messages # <<>>
    /\ LastSender = Str(User)
    /\ LastContent.kind = "str"
    /\ ~MarkerAtEnd(LastContent.text)

---------------------------------------------------------------------------
(* Exhaustion of the retries and the errors of the codec, on CodecSpec.   *)

\* id is a str that starts with "5" and the entry of its key in the ledger
\* the call found was one below the ceiling
ExhaustsOn(func_name, id) ==
    /\ id.kind = "str"
    /\ id.text # <<>>
    /\ id.text[1] = "5"
    /\ get_retry_count(call.counts, RetryKey(func_name, id.text))
        = MAX_RETRIES - 1

\* match and params are the call as decoded: func_name on such an id
ExhaustingIn(match, params, func_name, param) ==
    /\ match.func_name = func_name
    /\ ExhaustsOn(func_name, Slot(params.val.items, param))

\* the call is func_name on such an id: the call that reaches the ceiling
Exhausting(func_name, param) ==
    /\ Executed
    /\ ExhaustingIn(CallMatch, CallParams, func_name, param)

UserExhausting == Exhausting(<<"g","e","t","_","u","s","e","r","_","s","t",
                               "a","t","u","s">>, <<"u","s","e","r","_","i",
      "d">>)

ListingExhausting == Exhausting(<<"g","e","t","_","l","i","s","t","i","n","g",
                                  "_","s","t","a","t","u","s">>, <<"l","i",
      "s","t","i","n","g","_","i","d">>)

\* the value of a key of the object that was returned, Missing when it has
\* none
Out(key) == Slot(reply.obj.items, key)

\* the reply is one of the four errors of the codec
CodecError ==
    reply.branch \in {"invalid_format", "invalid_json", "unknown_function",
                      "critical_error"}

\* the status values of the four errors of the codec
ErrorStatuses == {Str(<<"e","r","r","o","r">>), Str(<<"c","r","i","t","i","c",
      "a","l","_","e","r","r","o","r">>)}

\* C28, as claimed: the call that reaches the ceiling returns the result of
\* the operation and not an error of the codec, and its status is none of
\* the status values of the four errors.
C28_Original ==
    (UserExhausting \/ ListingExhausting) =>
        /\ reply.branch = "success"
        /\ Out(<<"s","t","a","t","u","s">>) \notin ErrorStatuses

UserStatusName == <<"g","e","t","_","u","s","e","r","_","s","t","a","t","u","s">>

ListingStatusName ==
    <<"g","e","t","_","l","i","s","t","i","n","g","_","s","t","a","t","u","s">>

\* match and params are the call as decoded
ExhaustionIsAResult(match, params) ==
    /\ ExhaustingIn(match, params, UserStatusName, <<"u","s","e","r","_","i","d">>) =>
        /\ reply.branch = "success"
        /\ Out(<<"s","t","a","t","u","s">>) = Str(<<"o","n","_","h","o","l","d">>)
        /\ Out(<<"r","e","a","s","o","n","_","c","o","d","e">>) = Str(<<"M","A","X","_","R","E","T","R","I","E","S","_","E","X","C","E","E","D","E","D">>)
        /\ Out(<<"s","t","a","t","u","s">>) \notin ErrorStatuses
    /\ ExhaustingIn(match, params, ListingStatusName, <<"l","i","s","t","i","n","g","_","i","d">>) =>
        /\ reply.branch = "success"
        /\ Out(<<"s","t","a","t","u","s">>) = Str(<<"e","r","r","o","r">>)
        /\ Out(<<"r","e","t","r","y","_","n","e","e","d","e","d">>) = Bool(FALSE)
        /\ Out(<<"l","i","s","t","i","n","g","_","i","d">>) = Slot(params.val.items, <<"l","i","s","t","i","n","g","_","i","d">>)
    /\ CodecError =>
        /\ Out(<<"s","t","a","t","u","s">>) \in ErrorStatuses
        /\ Out(<<"r","e","t","r","y","_","n","e","e","d","e","d">>) = Missing
        /\ Out(<<"l","i","s","t","i","n","g","_","i","d">>) = Missing
        /\ Out(<<"u","s","e","r","_","i","d">>) = Missing
        /\ Out(<<"r","e","a","s","o","n","_","c","o","d","e">>) = Missing

\* C28, amended: the call that reaches the ceiling returns the result of the
\* operation and not an error of the codec.  For get_user_status its status
\* is on_hold, which no error has.  For get_listing_status its status is
\* error, as for three of the four errors; it differs from them by
\* retry_needed = false and the listing_id, which no error holds.
C28_ExhaustionIsAResult ==
    Executed => ExhaustionIsAResult(CallMatch, CallParams)

\* get_user_status reached the ceiling and gave on_hold
C28_Witness ==
    /\ UserExhausting
    /\ reply.branch = "success"
    /\ Out(<<"s","t","a","t","u","s">>) = Str(<<"o","n","_","h","o","l","d">>)
    /\ RetryKey(<<"g","e","t","_","u","s","e","r","_","s","t","a","t","u","s">>,
                Slot(CallParams.val.items, <<"u","s","e","r","_","i","d">>).text)
            \notin DOMAIN retry_counts

\* get_listing_status reached the ceiling and gave the status error
ListingCeilingGivesError ==
    /\ ListingExhausting
    /\ Out(<<"s","t","a","t","u","s">>) = Str(<<"e","r","r","o","r">>)

---------------------------------------------------------------------------
(* Calls whose parameters lack the id, on CodecSpec.                      *)

\* params is what json.loads gave: an object that holds no param
Lacks(params, param) ==
    /\ params.ok
    /\ Slot(params.val.items, param) = Missing

\* the call is func_name with a JSON object that holds no param
MissingId(func_name, param) ==
    /\ Executed
    /\ CallMatch.func_name = func_name
    /\ Lacks(CallParams, param)

\* match and params are the call as decoded: func_name with no param
MissingIdIn(match, params, func_name, param) ==
    /\ match.func_name = func_name
    /\ Lacks(params, param)

\* match and params are the call as decoded
DefaultId(match, params) ==
    /\ MissingIdIn(match, params, <<"g","e","t","_","u","s","e","r","_","s","t","a","t","u","s">>, <<"u","s","e","r","_","i","d">>) =>
        /\ reply.branch = "success"
        /\ reply.called = <<"g","e","t","_","u","s","e","r","_","s","t","a","t","u","s">>
        /\ Out(<<"s","t","a","t","u","s">>) = Str(<<"o","n","_","h","o","l","d">>)
        /\ Out(<<"u","s","e","r","_","i","d">>) = Str(<<"d","e","f","a","u","l","t">>)
        /\ retry_counts = call.counts
    /\ MissingIdIn(match, params, <<"g","e","t","_","l","i","s","t","i","n","g","_","s","t","a","t","u","s">>, <<"l","i","s","t","i","n","g","_","i","d">>) =>
        /\ reply.branch = "success"
        /\ reply.called = <<"g","e","t","_","l","i","s","t","i","n","g","_","s","t","a","t","u","s">>
        /\ Out(<<"s","t","a","t","u","s">>) = Str(<<"a","c","t","i","v","e">>)
        /\ Out(<<"l","i","s","t","i","n","g","_","i","d">>) = Str(<<"d","e","f","a","u","l","t">>)
        /\ retry_counts = call.counts
    /\ MissingIdIn(match, params, <<"g","e","t","_","b","r","a","n","d","_","a","p","p","r","o","v","a","l","_","s","t","a","t","u","s">>, <<"r","e","q","u","e","s","t","_","i","d">>) =>
        /\ reply.branch = "success"
        /\ reply.called = <<"g","e","t","_","b","r","a","n","d","_","a","p","p","r","o","v","a","l","_","s","t","a","t","u","s">>
        /\ Out(<<"s","t","a","t","u","s">>) = Str(<<"d","i","s","a","p","p","r","o","v","e","d">>)
        /\ Out(<<"t","i","m","e","l","i","n","e","_","h","o","u","r","s">>) = IntVal(<<"8","0">>)
        /\ retry_counts = call.counts

\* C29: a call whose object lacks the id is dispatched with the default of
\* params.get and returns the result of the operation: get_user_status
\* gives on_hold, get_listing_status gives active, get_brand_approval_status
\* gives disapproved with timeline_hours 80, in both front ends, and the
\* ledger is as it was.
C29_DefaultId ==
    Executed => DefaultId(CallMatch, CallParams)

\* get_user_status was called in the browser with an object that holds a
\* listing_id and no user_id, with entries in the ledger, and gave on_hold
C29_Witness ==
    /\ MissingId(<<"g","e","t","_","u","s","e","r","_","s","t","a","t","u","s">>, <<"u","s","e","r","_","i","d">>)
    /\ call.fe = "st"
    /\ Slot(CallParams.val.items, <<"l","i","s","t","i","n","g","_","i","d">>) = Str(<<"5","2">>)
    /\ call.counts # <<>>
    /\ Out(<<"s","t","a","t","u","s">>) = Str(<<"o","n","_","h","o","l","d">>)
    /\ retry_counts = call.counts

---------------------------------------------------------------------------
(* The counts the ledger holds between two operations, on BackendSpec.    *)

\* C30: between two backend operations, whatever sessions made them, every
\* entry of the ledger holds 1 or 2: none holds 0, none holds the ceiling of
\* 3 or more, so the count a call reads is below the ceiling.
C30_CountsBelowCeiling ==
    \A k \in DOMAIN retry_counts :
        /\ retry_counts[k] \in {1, 2}
        /\ retry_counts[k] # 0
        /\ get_retry_count(retry_counts, k) < MAX_RETRIES

\* two sessions have called; the entry of a key was deleted by the attempt
\* that reached the ceiling and the ledger holds an entry of another key
C30_Witness ==
    /\ Called
    /\ sessions[1].calls > 0
    /\ sessions[2].calls > 0
    /\ \E k \in DOMAIN attempts :
        /\ k[2][1] = "5"
        /\ attempts[k] = MAX_RETRIES
        /\ RetryKey(k[1], k[2]) \notin DOMAIN retry_counts
    /\ retry_counts # <<>>


---------------------------------------------------------------------------
(* Frame of the ledger, on the calls of OpsSpec.                          *)

\* the last call was user-status or listing-status on an id that starts
\* with "5"
RetryCall ==
    /\ call.fe # "none"
    /\ call.func_name \in {UserStatusName, ListingStatusName}
    /\ OpId # <<>>
    /\ OpId[1] = "5"

\* C31: user-status and listing-status on an id that does not start with
\* "5", reactivation-check, ticket-create and brand-approval-status leave
\* the ledger as they found it; a retry call changes no entry but that of
\* its own key; the keys of user-status and listing-status of one id differ,
\* so a retry of one leaves the count of the other.
C31_LedgerFrame ==
    call.fe # "none" =>
        /\ ~RetryCall => retry_counts = call.counts
        /\ RetryCall =>
            /\ OthersKept(RetryKey(call.func_name, OpId))
            /\ RetryKey(UserStatusName, OpId)
                    # RetryKey(ListingStatusName, OpId)
            /\ call.func_name = UserStatusName =>
                    LedgerCount(RetryKey(ListingStatusName, OpId))
                        = CountBefore(RetryKey(ListingStatusName, OpId))
            /\ call.func_name = ListingStatusName =>
                    LedgerCount(RetryKey(UserStatusName, OpId))
                        = CountBefore(RetryKey(UserStatusName, OpId))

\* a retry of listing-status on the id 52 changed its own entry and left the
\* entry of user-status of the same id
C31_Witness ==
    /\ RetryCall
    /\ call.func_name = ListingStatusName
    /\ OpId = <<"5","2">>
    /\ CountBefore(RetryKey(UserStatusName, OpId)) = 2
    /\ LedgerCount(RetryKey(UserStatusName, OpId)) = 2
    /\ LedgerCount(RetryKey(ListingStatusName, OpId))
            # CountBefore(RetryKey(ListingStatusName, OpId))

\* brand-approval-status on an id that starts with "5" found entries in the
\* ledger and left them
BrandCallLeavesLedger ==
    /\ OpCalled(<<"g","e","t","_","b","r","a","n","d","_","a","p","p","r","o","v","a","l","_","s","t","a","t","u","s">>)
    /\ OpId = <<"5","2">>
    /\ call.counts # <<>>
    /\ retry_counts = call.counts

---------------------------------------------------------------------------
(* The ledger after an error of the codec, on the calls of CodecSpec.     *)

\* C32: when execute_function_call returns the payload of an invalid
\* format, of invalid JSON, of an unknown function or of a critical error,
\* the ledger after the call is the ledger before the call.
C32_ErrorsKeepLedger ==
    CodecError =>
        /\ retry_counts = call.counts
        /\ reply.counts = call.counts
        /\ Out(<<"s","t","a","t","u","s">>) \in ErrorStatuses

\* get_listing_status raised on an id that is no str, with entries in the
\* ledger, and the ledger is as it was
C32_Witness ==
    /\ reply.branch = "critical_error"
    /\ reply.called = ListingStatusName
    /\ call.counts # <<>>
    /\ retry_counts = call.counts
    /\ Out(<<"s","t","a","t","u","s">>) = Str(<<"c","r","i","t","i","c","a","l","_","e","r","r","o","r">>)

---------------------------------------------------------------------------
(* The termination rule and the rule of the function call, on RouterSpec. *)

\* the router of a front end with the rule of the function call evaluated
\* before the termination rule
function_call_rule_first(fe, msgs) ==
    IF /\ msgs # <<>>
       /\ dict_get(msgs[Len(msgs)].name, Str(<<>>)) = Str(SIA)
       /\ dict_get(msgs[Len(msgs)].content, Str(<<>>)).kind = "str"
       /\ re_search(dict_get(msgs[Len(msgs)].content, Str(<<>>)).text).matched
    THEN Decision("FunctionExecutor", 3)
    ELSE route(fe, msgs)

\* C33: no text ends, right-trimmed, with the marker and has the
\* function-call shape, so the router that evaluates the rule of the
\* function call before the termination rule decides as the router does.
C33_RulesExclusive ==
    Routed =>
        /\ LastContent.kind = "str" =>
            ~(MarkerAtEnd(LastContent.text) /\ HasShape(LastContent.text))
        /\ function_call_rule_first(selected.fe, messages)
                = Decision(selected.next, selected.rule)

\* a message of SIA that holds a function call followed by the marker ended
\* the session
C33_Witness ==
    /\ Routed
    /\ LastSender = Str(SIA)
    /\ LastContent.kind = "str"
    /\ MarkerAtEnd(LastContent.text)
    /\ HasPrefix(LastContent.text)
    /\ \E n \in 1..Len(LastContent.text) :
            HasShape(SubSeq(LastContent.text, 1, n))
    /\ selected.next = "None"

---------------------------------------------------------------------------
(* The router and FunctionExecutor on one message, on ShapeSpec.          *)

\* C34: when the router has routed the message of SIA to FunctionExecutor
\* and FunctionExecutor is asked, it gives a reply, the reply is what
\* execute_function_call gives on that message, and it is not the invalid
\* format error.
C34_ExecutorAcceptsRouted ==
    (RouterAccepted /\ ExecutorAsked) =>
        /\ reply.branch # "none"
        /\ reply.branch # "invalid_format"
        /\ call.message = ShapeText
        /\ reply = IF call.fe = "cli"
                   THEN execute_function_call(call.counts, NoContext,
                                              ShapeText)
                   ELSE execute_function_call_st(call.counts, NoContext,
                                                 ShapeText, call.now)
        /\ HasShape(ShapeText)

\* the router routed a call with an unknown name and braces that hold no
\* JSON to FunctionExecutor, whose reply is the invalid JSON error
C34_Witness ==
    /\ RouterAccepted
    /\ ExecutorAsked
    /\ reply.branch = "invalid_json"
    /\ call.message = ShapeText

---------------------------------------------------------------------------
(* The messages of FunctionExecutor and the marker, on SessionSpec.       *)

\* the text of the message at position i
TextAt(i) == messages[i].content.text

\* the positions of the messages of FunctionExecutor
ExecutorMessages ==
    {i \in 1..Len(messages) : messages[i].name = Str(FunctionExecutor)}

\* C35: every message of FunctionExecutor is the text of a JSON object and
\* does not end, right-trimmed, with the marker; on a message of
\* FunctionExecutor the router does not return terminate, also when the
\* message field of the result ends with the marker; and a session that
\* ended by the marker ended on a message of SIA or of User.
C35_ExecutorNeverEndsSession ==
    /\ \A i \in ExecutorMessages :
        /\ json_loads(TextAt(i)).ok
        /\ json_loads(TextAt(i)).val.kind = "dict"
        /\ TextAt(i)[1] = "{"
        /\ TextAt(i)[Len(TextAt(i))] = "}"
        /\ ~MarkerAtEnd(TextAt(i))
    /\ LastFrom(FunctionExecutor) =>
        /\ selected.next # "None"
        /\ selected.rule # 2
        /\ loop.cause # "marker"
        /\ loop.fe = "st" => is_chat_active
    /\ loop.cause = "marker" =>
        /\ LastFrom(SIA) \/ LastFrom(User)
        /\ MarkerAtEnd(TextAt(Len(messages)))

\* the router has given the turn to SIA on the result of the listing-status
\* call that used up its retries, whose message field ends with the marker
C35_Witness ==
    /\ ListingExhausted
    /\ endswith(TextOf(Slot(ResultAt(Len(messages)), <<"m","e","s","s","a","g","e">>)), TERMINATE)
    /\ selected.next = "SIA"
    /\ loop.state = "Running"

---------------------------------------------------------------------------
(* The router and the sender of the last message, on RouterSpec.          *)

\* the router gave the turn to the role that sent the last message
BackToSender ==
    \/ LastSender = Str(User) /\ selected.next = "User"
    \/ LastSender = Str(SIA) /\ selected.next = "SIA"
    \/ LastSender = Str(FunctionExecutor) /\ selected.next = "FunctionExecutor"
    \/ LastSender = Str(Coordinator) /\ selected.next = "Coordinator"

\* the last message has a text, the empty text included, that does not end
\* with the marker
GoesOn ==
    /\ Routed
    /\ LastContent.kind = "str"
    /\ ~MarkerAtEnd(LastContent.text)

\* C36: on a last message of User, SIA, FunctionExecutor or Coordinator
\* whose text, the empty text included, does not end with the marker, the
\* router of either front end gives the turn to a role that is not the
\* sender of the message.
C36_NeverBackToSender ==
    GoesOn => ~BackToSender

\* what holds: the CLI router never gives the turn back to the sender, and
\* the browser router gives it back only for the empty text of User
BackToSenderOnlyOnEmptyUserText ==
    (GoesOn /\ BackToSender) =>
        /\ selected.fe = "st"
        /\ LastSender = Str(User)
        /\ LastContent.text = <<>>
        /\ selected.rule = 7

---------------------------------------------------------------------------
(* The two routers on the same session, on RouterSpec.                    *)

\* the role the router of the other front end gives the turn to
OtherRouter ==
    IF selected.fe = "cli" THEN speaker_selection_func_st(messages).next
    ELSE speaker_selection_func(messages).next

\* the last message, when there is one, has a text
TextOrEmptySession ==
    messages # <<>> => LastContent.kind = "str"

\* C37: on every session whose last message has a text, the empty text
\* included, and any sender, the router of the CLI and the router of the
\* browser return the same decision.
C37_RoutersEquivalent ==
    (selected.fe # "none" /\ TextOrEmptySession) =>
        selected.next = OtherRouter

\* what holds: the two routers return the same decision on the empty
\* session and on every text that is not empty, and on the empty text they
\* differ for the senders FunctionExecutor and User only, where the CLI
\* gives SIA and the browser User
RoutersDifferOnEmptyTextOnly ==
    (selected.fe # "none" /\ TextOrEmptySession /\ selected.next # OtherRouter)
        => /\ messages # <<>>
           /\ LastContent.text = <<>>
           /\ LastSender \in {Str(FunctionExecutor), Str(User)}
           /\ speaker_selection_func(messages).next = "SIA"
           /\ speaker_selection_func_st(messages).next = "User"

---------------------------------------------------------------------------
(* The session whose two ids are on the retry path, on SessionSpec.       *)

\* the parameters of the function call in the message at position i
ParamsAt(i) == json_loads(re_search(TextAt(i)).params_str).val.items

\* the positions of the messages of SIA that call func_name with an id, in
\* param, that starts with "5"
RetryCallsOf(func_name, param) ==
    {i \in SIAMessages(messages) :
        /\ re_search(TextAt(i)).matched
        /\ re_search(TextAt(i)).func_name = func_name
        /\ TextOf(Slot(ParamsAt(i), param)) # <<>>
        /\ TextOf(Slot(ParamsAt(i), param))[1] = "5"}

UserRetryCalls == RetryCallsOf(<<"g","e","t","_","u","s","e","r","_","s","t",
                                 "a","t","u","s">>, <<"u","s","e","r","_","i",
      "d">>)

ListingRetryCalls == RetryCallsOf(<<"g","e","t","_","l","i","s","t","i","n",
                                    "g","_","s","t","a","t","u","s">>, <<"l",
      "i","s","t","i","n","g","_","i","d">>)

\* the messages at the positions in calls have the same text
SameCall(calls) == \A i, j \in calls : TextAt(i) = TextAt(j)

\* the message at position i is answered by FunctionExecutor
Answered(i) ==
    i < Len(messages) /\ messages[i + 1].name = Str(FunctionExecutor)

\* C38: a session starts with an empty ledger; in a session the calls of
\* get_user_status with an id that starts with "5" are at most three and
\* have the same text, and so the calls of get_listing_status; and a session
\* that has both and has ended has three answered calls of each, ended on a
\* message that ends with the marker, before round 25, and left the ledger
\* empty.
C38_ThreeAndThree ==
    /\ (loop.state = "Running" /\ loop.round = 0) => retry_counts = <<>>
    /\ Cardinality(UserRetryCalls) <= 3
    /\ Cardinality(ListingRetryCalls) <= 3
    /\ SameCall(UserRetryCalls)
    /\ SameCall(ListingRetryCalls)
    /\ (loop.state = "Terminated" /\ UserRetryCalls # {}
            /\ ListingRetryCalls # {}) =>
        /\ Cardinality(UserRetryCalls) = 3
        /\ Cardinality(ListingRetryCalls) = 3
        /\ \A i \in UserRetryCalls \cup ListingRetryCalls : Answered(i)
        /\ loop.cause = "marker"
        /\ MarkerAtEnd(TextAt(Len(messages)))
        /\ loop.round < max_round
        /\ retry_counts = <<>>

\* a session of the user id 56789 and the listing id 52 that has ended
C38_Witness ==
    /\ loop.state = "Terminated"
    /\ Cardinality(UserRetryCalls) = 3
    /\ Cardinality(ListingRetryCalls) = 3
    /\ \A i \in UserRetryCalls : TextOf(Slot(ParamsAt(i), <<"u","s","e","r","_","i","d">>)) = <<"5","6","7","8","9">>
    /\ \A i \in ListingRetryCalls : TextOf(Slot(ParamsAt(i), <<"l","i","s","t","i","n","g","_","i","d">>)) = <<"5","2">>
    /\ loop.cause = "marker"
    /\ retry_counts = <<>>

---------------------------------------------------------------------------
(* process_user_input after the chat has ended, on SessionSpec.           *)

\* the browser chat has ended and the step does not start a new chat
AfterChatEnded ==
    /\ loop.fe = "st"
    /\ is_initialized
    /\ ~is_chat_active
    /\ ~NewSessionStarted

\* C39: in the browser, once is_chat_active is false and until a new chat
\* is started, a step of the page sends nothing to the manager, invokes no
\* backend operation and leaves the conversation history, the messages of
\* the group chat and the ledger unchanged.
C39_NoOpAfterEnd ==
    [][AfterChatEnded =>
            /\ loop' = loop
            /\ selected' = selected
            /\ reply' = reply
            /\ conversation_history' = conversation_history
            /\ messages' = messages
            /\ retry_counts' = retry_counts]_vars

\* what holds: the input is appended to the conversation history as an
\* entry of the user, and nothing else of the page or the session changes
InputAfterEndIsShownOnly ==
    [][AfterChatEnded =>
            /\ loop' = loop
            /\ selected' = selected
            /\ reply' = reply
            /\ messages' = messages
            /\ retry_counts' = retry_counts
            /\ user_context' = user_context
            /\ is_chat_active' = is_chat_active
            /\ handler' = handler
            /\ Len(conversation_history') = Len(conversation_history) + 1
            /\ conversation_history'[Len(conversation_history')].role = "user"
            /\ SubSeq(conversation_history', 1, Len(conversation_history))
                   = conversation_history]_vars
=============================================================================
